---- MODULE Spec2Model ----
(***************************************************************************)
(* Blendyn: ingestion of MBDyn output.  A model of the entity registry     *)
(* (mbs.nodes, mbs.elems), of the log parser parse_log_file(), of the      *)
(* label resolver assign_labels(), of the text and NetCDF readers          *)
(* (set_motion_paths_mov(), netcdf_helper()) and of the modal              *)
(* superposition of set_motion_modal_nodes().                              *)
(*                                                                         *)
(* Conventions.                                                            *)
(*  - A Blender collection (mbs.nodes, mbs.elems) is a sequence of         *)
(*    records in creation order; collection[key] is the first record       *)
(*    whose name is key, and a missing key is Python's KeyError.           *)
(*  - Integer labels are written by MBDyn in canonical decimal form, so    *)
(*    a label token rw[k] and str(int(rw[k])) are the same key.            *)
(*  - Times are counted in units of mbs.time_step; load_frequency and      *)
(*    fractional timesteps are rationals with denominator Den.             *)
(*  - An exception that leaves a function is the status "EXC_<name>".      *)
(***************************************************************************)
EXTENDS Integers, Sequences, FiniteSets, TLC

(* ------------------------------ bounds -------------------------------- *)
\* largest number of declaration rows of a log
MaxDecls == 2
\* denominator of the rationals: load_frequency and fractional timesteps
Den == 4

VARIABLES
    nd,               \* mbs.nodes
    ed,               \* mbs.elems
    is_ready,         \* mbs.is_ready
    min_node_import,  \* mbs.min_node_import
    max_node_import,  \* mbs.max_node_import
    min_elem_import,  \* mbs.min_elem_import
    max_elem_import,  \* mbs.max_elem_import
    num_rows,         \* mbs.num_rows
    num_nodes,        \* mbs.num_nodes
    num_timesteps,    \* mbs.num_timesteps
    end_time,         \* mbs.end_time, in units of mbs.time_step
    ret_val,          \* status returned by the last operation
    obj_names,        \* second value returned by parse_log_file
    pass_ret,         \* ret_val of parse_log_file when its declaration pass ends (line 401)
    pass_end,         \* how the declaration pass of the last parse_log_file ended
    lastOp,           \* the operation that ran last
    log_nodes,        \* node labels declared by the log of the last parse_log_file
    log_elems,        \* beam2 labels declared by the log of the last parse_log_file
    rerun_base,       \* what the first of two passes in a row left and returned
    rd,               \* mbs.references
    start_time,       \* mbs.start_time, in units of mbs.time_step
    load_frequency,   \* mbs.load_frequency, in units of 1/Den
    frame_start,      \* scene.frame_start
    frame_end,        \* scene.frame_end
    frame_current,    \* scene.frame_current
    simtime,          \* mbs.simtime: the time of each entry, in units of 1/Den
    progress,         \* the progress indicator of the window manager
    location,         \* obj.location of the animated objects, in units of 1/Den
    mov,              \* the rows of the .mov file
    mod,              \* the rows of the .mod file
    nc,               \* the NetCDF dataset
    use_netcdf,       \* mbs.use_netcdf
    num_modal_modes,  \* mbs.num_modal_modes
    build,            \* the local variables of the running animation build
    reader,           \* the rows of the .log file and what the csv reader loop did with them
    eigensolutions    \* mbs.eigensolutions

regvars == <<nd, ed, is_ready, min_node_import, max_node_import, min_elem_import,
             max_elem_import, num_rows, num_nodes, num_timesteps, end_time,
             ret_val, obj_names, pass_ret, pass_end, lastOp, log_nodes, log_elems,
             rerun_base>>

\* the state that the log parser leaves alone
labelvars == <<rd>>
buildvars == <<start_time, load_frequency, frame_start, frame_end, frame_current,
               simtime, progress, location, mov, mod, nc, use_netcdf,
               num_modal_modes, build>>
animvars == <<labelvars, buildvars, reader, eigensolutions>>

vars == <<regvars, animvars>>

(* --------------------------- the registry ------------------------------ *)
\* the default of a string property that was never set
NoneStr == "none"

\* the MBDyn model of the modelled runs: two structural nodes and two beams
NodeLabels == {1, 2}
ElemLabels == {1, 2}

\* name of the Blender object bound to an entity
ObjName(kind, l) == kind \o "_" \o ToString(l)

\* position of the first record of a collection with the given key, 0 for KeyError
RECURSIVE FindFrom(_, _, _)
FindFrom(coll, match(_), i) ==
    IF i > Len(coll) THEN 0
    ELSE IF match(coll[i]) THEN i
    ELSE FindFrom(coll, match, i + 1)

\* nd['node_' + label]
FindNode(nodes, l) ==
    LET m(n) == n.int_label = l IN FindFrom(nodes, m, 1)

\* ed[type + '_' + label]
FindElem(elems, t, l) ==
    LET m(e) == e.type = t /\ e.int_label = l IN FindFrom(elems, m, 1)

(* ----------------------------- log rows -------------------------------- *)
\* "structural node: <label> <x> <y> <z> <parametrization> ..."
NodeRow(l, par) == [k |-> "structural node", lab |-> l, par |-> par]
\* "beam2: <label> <node1> <o1> <node2> <o2>"
Beam2Row(l, n1, o1, n2, o2) ==
    [k |-> "beam2", lab |-> l, nodes |-> <<n1, n2>>, offsets |-> <<o1, o2>>]
\* "beam3: <label> <node1> <o1> <node2> <o2> <node3> <o3>"
Beam3Row(l, n1, o1, n2, o2, n3, o3) ==
    [k |-> "beam3", lab |-> l, nodes |-> <<n1, n2, n3>>, offsets |-> <<o1, o2, o3>>]
\* "Symbol table:"
MarkerRow == [k |-> "Symbol table"]

SupportedPar == {"PHI", "EULER123", "EULER321", "EULER132", "MATRIX"}

(* ----------------------------- sub-parsers ----------------------------- *)
\* parse_node(context, rw): a record [nd, ret]; ret is "True" (found), "False"
\* (created) or "{}" (unsupported rotation parametrization, registry not touched)
parse_node(nodes, rw) ==
    LET i == FindNode(nodes, rw.lab) IN
    IF rw.par \notin SupportedPar THEN [nd |-> nodes, ret |-> "{}"]
    ELSE IF i > 0
    THEN [nd |-> [nodes EXCEPT ![i].is_imported = TRUE,
                               ![i].parametrization = rw.par],
          ret |-> "True"]
    ELSE [nd |-> Append(nodes,
                   [int_label |-> rw.lab, is_imported |-> TRUE,
                    blender_object |-> "none", output |-> FALSE,
                    parametrization |-> rw.par, string_label |-> NoneStr]),
          ret |-> "False"]

\* is_imported of a beam2 found in the dictionary, after parse_beam2 (line 57)
\* a record is added whether or not the element is already in the registry
parse_beam2_added(elems, rw) ==
    [ed |-> Append(elems, [type |-> "beam2", int_label |-> rw.lab, nodes |-> rw.nodes,
                            offsets |-> rw.offsets, blender_object |-> "none",
                            is_imported |-> TRUE, string_label |-> NoneStr]),
     ret |-> "False"]

Beam2FoundFlag == TRUE

\* parse_beam2(rw, ed): a record [ed, ret]
parse_beam2(elems, rw) ==
    LET i == FindElem(elems, "beam2", rw.lab) IN
    IF i > 0
    THEN [ed |-> [elems EXCEPT ![i].nodes = rw.nodes,
                               ![i].offsets = rw.offsets,
                               ![i].is_imported = Beam2FoundFlag],
          ret |-> "True"]
    ELSE [ed |-> Append(elems,
                   [type |-> "beam2", int_label |-> rw.lab,
                    nodes |-> rw.nodes, offsets |-> rw.offsets,
                    blender_object |-> "none", is_imported |-> TRUE,
                    string_label |-> NoneStr]),
          ret |-> "False"]

\* parse_beam3(rw, ed): a record [ed, ret]; on the path that finds the element,
\* lines 110-112 assign offsets[0], offsets[1] and offsets[1] again
parse_beam3(elems, rw) ==
    LET i == FindElem(elems, "beam3", rw.lab) IN
    IF i > 0
    THEN [ed |-> [elems EXCEPT ![i].nodes = rw.nodes,
                               ![i].offsets = [@ EXCEPT ![1] = rw.offsets[1],
                                                        ![2] = rw.offsets[3]],
                               ![i].is_imported = TRUE],
          ret |-> "True"]
    ELSE [ed |-> Append(elems,
                   [type |-> "beam3", int_label |-> rw.lab,
                    nodes |-> rw.nodes, offsets |-> rw.offsets,
                    blender_object |-> "none", is_imported |-> TRUE,
                    string_label |-> NoneStr]),
          ret |-> "False"]

\* parse_elements(context, tag, rw): dispatch on the tag of the declaration
parse_elements(elems, tag, rw) ==
    IF tag = "beam2" THEN parse_beam2(elems, rw)
    ELSE IF tag = "beam3" THEN parse_beam3(elems, rw)
    ELSE [ed |-> elems, ret |-> "True"]

(* --------------------------- parse_log_file ---------------------------- *)
\* the flags left as the previous pass set them
ClearImported_skipped(coll) == coll

\* lines 269-273: every is_imported flag is cleared before the log is opened
ClearImported(coll) == [i \in 1..Len(coll) |-> [coll[i] EXCEPT !.is_imported = FALSE]]

\* lines 378-387: the verdict when the end-of-declarations marker is reached
Verdict(is_init_nd, is_init_ed, bn, be) ==
    IF (is_init_nd /\ is_init_ed) \/ (bn /\ be) THEN "FINISHED"
    ELSE IF (~bn /\ ~is_init_nd) /\ (~be /\ ~is_init_ed) THEN "MODEL_INCONSISTENT"
    ELSE IF (~bn /\ ~is_init_nd) /\ be THEN "NODES_INCONSISTENT"
    ELSE IF bn /\ (~be /\ ~is_init_ed) THEN "ELEMS_INCONSISTENT"
    ELSE "FINISHED"

\* lines 356-400: the declaration loop over the rows of the log from row i on.
\* end: "marker" (Symbol table reached), "eof" (StopIteration), "rotation" (TypeError)
RECURSIVE ParseRows(_, _, _, _, _, _)
ParseRows(rows, i, nodes, elems, bn, be) ==
    IF i > Len(rows)
    THEN [nd |-> nodes, ed |-> elems, bn |-> bn, be |-> be, end |-> "eof"]
    ELSE LET rw == rows[i] IN
         IF rw.k = "Symbol table"
         THEN [nd |-> nodes, ed |-> elems, bn |-> bn, be |-> be, end |-> "marker"]
         ELSE IF rw.k = "structural node"
         THEN LET r == parse_node(nodes, rw) IN
              IF r.ret = "{}"
              THEN [nd |-> nodes, ed |-> elems, bn |-> bn, be |-> be,
                    end |-> "rotation"]
              ELSE ParseRows(rows, i + 1, r.nd, elems, bn /\ (r.ret = "True"), be)
         ELSE LET r == parse_elements(elems, rw.k, rw) IN
              ParseRows(rows, i + 1, nodes, r.ed, bn, be /\ (r.ret = "True"))

\* lines 349-400: the declaration pass; log.rows are the rows of the .log file,
\* log.exists tells whether the file can be opened
DeclarationPass(log, nodes, elems, is_init_nd, is_init_ed) ==
    IF ~log.exists
    THEN [nd |-> nodes, ed |-> elems, end |-> "nolog", ret |-> "LOG_NOT_FOUND"]
    ELSE LET p == ParseRows(log.rows, 1, nodes, elems, TRUE, TRUE) IN
         [nd |-> p.nd, ed |-> p.ed, end |-> p.end,
          ret |-> CASE p.end = "marker" ->
                         Verdict(is_init_nd, is_init_ed, p.bn, p.be)
                    [] p.end = "rotation" -> "ROTATION_ERROR"
                    [] OTHER -> ""]

\* lines 403-409: the Blender objects of the entities whose flag is still false
RECURSIVE StaleObjects(_, _)
StaleObjects(coll, i) ==
    IF i > Len(coll) THEN <<>>
    ELSE (IF ~coll[i].is_imported /\ coll[i].blender_object # ""
          THEN <<coll[i].blender_object>> ELSE <<>>)
         \o StaleObjects(coll, i + 1)

\* no_output(): the nodes named in the first block of the .mov file (or owning a
\* variable node.struct.<label>.X of the NetCDF file) get output = True
no_output(nodes, recorded) ==
    [i \in 1..Len(nodes) |->
        IF nodes[i].int_label \in recorded
        THEN [nodes[i] EXCEPT !.output = TRUE] ELSE nodes[i]]

\* a scan that keeps the label of the first record for both bounds
MinMaxScan_first(coll, i, lo, hi) == [min |-> lo, max |-> hi]

\* lines 416-423 and 442-448: the scan for the smallest and largest int_label
RECURSIVE MinMaxScan(_, _, _, _)
MinMaxScan(coll, i, lo, hi) ==
    IF i > Len(coll) THEN [min |-> lo, max |-> hi]
    ELSE IF coll[i].int_label < lo THEN MinMaxScan(coll, i + 1, coll[i].int_label, hi)
    ELSE IF coll[i].int_label > hi THEN MinMaxScan(coll, i + 1, lo, coll[i].int_label)
    ELSE MinMaxScan(coll, i + 1, lo, hi)

\* lines 411-437: the status once the registry has been counted
StatusAfterCount(passRet, nn) == IF nn > 0 THEN "FINISHED" ELSE "NODES_NOT_FOUND"

\* lines 450-469: the status once the .out file has been looked for
StatusAfterOut(status, out_ok) == IF out_ok THEN status ELSE "OUT_NOT_FOUND"

\* the fields of mbs that parse_log_file reads and writes
Session ==
    [nd |-> nd, ed |-> ed, is_ready |-> is_ready,
     min_node_import |-> min_node_import, max_node_import |-> max_node_import,
     min_elem_import |-> min_elem_import, max_elem_import |-> max_elem_import,
     num_rows |-> num_rows, num_nodes |-> num_nodes,
     num_timesteps |-> num_timesteps, end_time |-> end_time]

\* parse_log_file(context) in text mode, from session s; f names the files of the
\* working directory: f.log the .log file, f.out whether the .out file opens,
\* f.mov the node labels of the first block of the .mov file.  The .rfm file of
\* the modelled runs is absent (FileNotFoundError, lines 487-489).
\* The result is the session after the call with the two returned values.
parse_log_file(s, f) ==
    LET is_init_nd == Len(s.nd) = 0
        is_init_ed == Len(s.ed) = 0
        count(p, nodes2) ==
            LET nn == Len(p.nd)
                en == Len(p.ed)
                mmn == MinMaxScan(nodes2, 2, nodes2[1].int_label, nodes2[1].int_label)
                mme == MinMaxScan(p.ed, 2, p.ed[1].int_label, p.ed[1].int_label)
                nts == IF nn > 0 THEN s.num_rows \div nn ELSE s.num_timesteps
            IN  [nd |-> nodes2,
                 ed |-> p.ed,
                 is_ready |-> IF nn > 0 THEN TRUE ELSE s.is_ready,
                 min_node_import |-> IF nn > 0 THEN mmn.min ELSE s.min_node_import,
                 max_node_import |-> IF nn > 0 THEN mmn.max ELSE s.max_node_import,
                 min_elem_import |-> IF en > 0 THEN mme.min ELSE s.min_elem_import,
                 max_elem_import |-> IF en > 0 THEN mme.max ELSE s.max_elem_import,
                 num_rows |-> s.num_rows,
                 num_nodes |-> IF nn > 0 THEN nn ELSE s.num_nodes,
                 num_timesteps |-> nts,
                 end_time |-> nts - 1,
                 obj_names |-> StaleObjects(p.nd, 1) \o StaleObjects(p.ed, 1),
                 pass_ret |-> p.ret,
                 pass_end |-> p.end,
                 ret_val |-> StatusAfterOut(StatusAfterCount(p.ret, nn), f.out)]
    IN  CHOOSE r \in
            {count(p, IF Len(p.nd) > 0 THEN no_output(p.nd, f.mov) ELSE p.nd) :
                p \in {DeclarationPass(f.log, ClearImported(s.nd), ClearImported(s.ed),
                                       is_init_nd, is_init_ed)}} : TRUE

\* labels of the rows of kind k that a log declares before its Symbol table line
Declared(log, k) ==
    {log.rows[i].lab : i \in {j \in 1..Len(log.rows) : log.rows[j].k = k}}

\* the session and the returned values after a call of parse_log_file
Returned(r, f) ==
    /\ nd' = r.nd
    /\ ed' = r.ed
    /\ is_ready' = r.is_ready
    /\ min_node_import' = r.min_node_import
    /\ max_node_import' = r.max_node_import
    /\ min_elem_import' = r.min_elem_import
    /\ max_elem_import' = r.max_elem_import
    /\ num_rows' = r.num_rows
    /\ num_nodes' = r.num_nodes
    /\ num_timesteps' = r.num_timesteps
    /\ end_time' = r.end_time
    /\ ret_val' = r.ret_val
    /\ obj_names' = r.obj_names
    /\ pass_ret' = r.pass_ret
    /\ pass_end' = r.pass_end
    /\ log_nodes' = Declared(f.log, "structural node")
    /\ log_elems' = Declared(f.log, "beam2")
    /\ UNCHANGED animvars

\* no pass has been run twice in a row
NoRerun == [nd |-> <<>>, ed |-> <<>>, ret_val |-> "", obj_names |-> <<>>]

\* one import: parse_log_file on the files f
ParseLogFile(f) ==
    \E r \in {parse_log_file(Session, f)} :
        /\ Returned(r, f)
        /\ lastOp' = "parse_log_file"
        /\ rerun_base' = NoRerun

\* the import run again: parse_log_file twice in a row on the same unchanged files
ParseLogFileTwice(f) ==
    \E r1 \in {parse_log_file(Session, f)} :
    \E r2 \in {parse_log_file(r1, f)} :
        /\ Returned(r2, f)
        /\ lastOp' = "parse_log_file twice"
        /\ rerun_base' = [nd |-> r1.nd, ed |-> r1.ed, ret_val |-> r1.ret_val,
                           obj_names |-> r1.obj_names]

(* ------------------------ binding Blender objects ---------------------- *)
\* update_label(): the active object is bound to the node of label l
update_label(l) ==
    LET i == FindNode(nd, l) IN
    /\ i > 0
    /\ nd[i].blender_object = "none"
    /\ nd' = [nd EXCEPT ![i].blender_object = ObjName("node", l)]
    /\ lastOp' = "update_label"
    /\ ret_val' = ""
    /\ rerun_base' = NoRerun
    /\ UNCHANGED <<ed, is_ready, min_node_import, max_node_import, min_elem_import,
                   max_elem_import, num_rows, num_nodes, num_timesteps, end_time,
                   obj_names, pass_ret, pass_end, log_nodes, log_elems>>
    /\ UNCHANGED animvars

\* spawn_beam2_element(elem, context) when both nodes of the element are bound:
\* the curve object is created and the element is flagged as imported
spawn_beam2_element(l) ==
    LET i  == FindElem(ed, "beam2", l)
        n1 == FindNode(nd, ed[i].nodes[1])
        n2 == FindNode(nd, ed[i].nodes[2])
    IN  /\ i > 0
        /\ ed[i].blender_object = "none"
        /\ n1 > 0 /\ n2 > 0
        /\ nd[n1].blender_object # "none" /\ nd[n2].blender_object # "none"
        /\ ed' = [ed EXCEPT ![i].blender_object = ObjName("beam2", l),
                            ![i].is_imported = TRUE]
        /\ lastOp' = "spawn_beam2_element"
        /\ ret_val' = "FINISHED"
        /\ rerun_base' = NoRerun
        /\ UNCHANGED <<nd, is_ready, min_node_import, max_node_import,
                       min_elem_import, max_elem_import, num_rows, num_nodes,
                       num_timesteps, end_time, obj_names, pass_ret, pass_end,
                       log_nodes, log_elems>>
        /\ UNCHANGED animvars

(* ------------------------- the import session -------------------------- *)
\* rows a log may declare: nodes (supported parametrization or not) and beams
DeclRows ==
    {NodeRow(l, "PHI") : l \in NodeLabels}
    \cup {NodeRow(2, "EULER313")}
    \cup {Beam2Row(l, 1, 0, 2, 0) : l \in ElemLabels}

RECURSIVE SeqsUpTo(_, _)
SeqsUpTo(S, n) ==
    IF n = 0 THEN {<<>>}
    ELSE LET shorter == SeqsUpTo(S, n - 1) IN
         shorter \cup {Append(s, x) : s \in {t \in shorter : Len(t) = n - 1}, x \in S}

\* MBDyn declares an entity once: no two rows of a log share kind and label
DeclaredOnce(rows) ==
    \A i, j \in 1..Len(rows) :
        (i # j) => (rows[i].k # rows[j].k \/ rows[i].lab # rows[j].lab)

DeclSeqs == {s \in SeqsUpTo(DeclRows, MaxDecls) : DeclaredOnce(s)}

NoLog == [exists |-> FALSE, rows |-> <<>>]

\* logs: declarations, closed by the Symbol table line or cut short before it
Logs ==
    {NoLog}
    \cup {[exists |-> TRUE, rows |-> s] : s \in DeclSeqs}
    \cup {[exists |-> TRUE, rows |-> Append(s, MarkerRow)] : s \in DeclSeqs}

\* rows of the .mov file of the modelled runs
MovRows == 6

WorkDirs == [log : Logs, out : BOOLEAN, mov : {NodeLabels}]

\* no log has been read row by row
NoReader == [rows |-> <<>>, calls |-> <<>>, end |-> ""]

\* no animation build has run
NoPoses == [name \in {} |-> 0]
Idle == [pc |-> "idle"]
NoNetcdf ==
    /\ mod = <<>>
    /\ nc = [time |-> 0, open |-> FALSE]
    /\ use_netcdf = FALSE
    /\ num_modal_modes = 0
NoBuild ==
    /\ start_time = 0
    /\ load_frequency = Den
    /\ frame_start = 0
    /\ frame_end = 0
    /\ frame_current = 0
    /\ simtime = <<>>
    /\ progress = [open |-> FALSE, value |-> 0]
    /\ location = NoPoses
    /\ mov = <<>>
    /\ NoNetcdf
    /\ build = Idle

\* the session before the first import
EmptySession ==
    [nd |-> <<>>, ed |-> <<>>, is_ready |-> FALSE, min_node_import |-> 0,
     max_node_import |-> 0, min_elem_import |-> 0, max_elem_import |-> 0,
     num_rows |-> MovRows, num_nodes |-> 0, num_timesteps |-> 0, end_time |-> 0,
     ret_val |-> "", obj_names |-> <<>>, pass_ret |-> "", pass_end |-> ""]

\* the session holds the values of r
SessionIs(r) ==
    /\ nd = r.nd
    /\ ed = r.ed
    /\ is_ready = r.is_ready
    /\ min_node_import = r.min_node_import
    /\ max_node_import = r.max_node_import
    /\ min_elem_import = r.min_elem_import
    /\ max_elem_import = r.max_elem_import
    /\ num_rows = r.num_rows
    /\ num_nodes = r.num_nodes
    /\ num_timesteps = r.num_timesteps
    /\ end_time = r.end_time
    /\ ret_val = r.ret_val
    /\ obj_names = r.obj_names
    /\ pass_ret = r.pass_ret
    /\ pass_end = r.pass_end

Init ==
    /\ nd = <<>>
    /\ ed = <<>>
    /\ is_ready = FALSE
    /\ min_node_import = 0
    /\ max_node_import = 0
    /\ min_elem_import = 0
    /\ max_elem_import = 0
    /\ num_rows = MovRows
    /\ num_nodes = 0
    /\ num_timesteps = 0
    /\ end_time = 0
    /\ ret_val = ""
    /\ obj_names = <<>>
    /\ pass_ret = ""
    /\ pass_end = ""
    /\ lastOp = ""
    /\ log_nodes = {}
    /\ log_elems = {}
    /\ rerun_base = NoRerun
    /\ rd = <<>>
    /\ reader = NoReader
    /\ eigensolutions = <<>>
    /\ NoBuild

Next ==
    \/ \E f \in WorkDirs : ParseLogFile(f)
    \/ \E l \in NodeLabels : update_label(l)
    \/ \E l \in ElemLabels : spawn_beam2_element(l)

Spec == Init /\ [][Next]_vars

\* a session that imports once, binds objects and then runs the import twice in a
\* row on unchanged files
NextReimport ==
    \/ /\ lastOp = ""
       /\ \E f \in WorkDirs : ParseLogFile(f)
    \/ /\ lastOp \notin {"", "parse_log_file twice"}
       /\ \/ \E l \in NodeLabels : update_label(l)
          \/ \E l \in ElemLabels : spawn_beam2_element(l)
          \/ \E f \in WorkDirs : ParseLogFileTwice(f)

SpecReimport == Init /\ [][NextReimport]_vars

(* ======================= properties of the log parser ================== *)
Range(q) == {q[i] : i \in 1..Len(q)}
IntLabels(coll) == [i \in 1..Len(coll) |-> coll[i].int_label]
ParseStep == lastOp' = "parse_log_file"
ReImport == Len(nd) > 0 \/ Len(ed) > 0
\* the .out file was opened: OUT_NOT_FOUND is returned exactly when it was not
OutOpened == ret_val # "OUT_NOT_FOUND"

\* the status the four-way split asks for, from what the pass created
SplitStatus(newNodes, newElems) ==
    IF newNodes /\ newElems THEN "MODEL_INCONSISTENT"
    ELSE IF newNodes THEN "NODES_INCONSISTENT"
    ELSE IF newElems THEN "ELEMS_INCONSISTENT"
    ELSE "FINISHED"

\* C1: a re-import that reads the log up to the Symbol table line returns
\* NODES_INCONSISTENT when only nodes were created, ELEMS_INCONSISTENT when only
\* elements were, MODEL_INCONSISTENT when both were, FINISHED when nothing was
\* (the .out file being there).
C1_StatusSplit ==
    [][(ParseStep /\ pass_end' = "marker" /\ ReImport /\ OutOpened')
         => ret_val' = SplitStatus(Len(nd') > Len(nd), Len(ed') > Len(ed))]_vars

\* C2: when the declaration pass ends in an error (log not found, unsupported
\* rotation parametrization), parse_log_file returns the status of that error
\* (the .out file being there).
C2_ErrorStatusReturned ==
    (/\ lastOp = "parse_log_file"
     /\ pass_ret \in {"LOG_NOT_FOUND", "ROTATION_ERROR"}
     /\ OutOpened)
        => ret_val = pass_ret

NoDuplicate(coll, key(_)) ==
    \A i, j \in 1..Len(coll) : (i # j) => key(coll[i]) # key(coll[j])
NodeKey(n) == n.int_label
ElemKey(e) == <<e.type, e.int_label>>

StaleHandles(coll) ==
    {coll[i].blender_object : i \in {j \in 1..Len(coll) : ~coll[j].is_imported}}

FlagsAsDeclared(before, after, declared, removal) ==
    /\ Len(after) >= Len(before)
    /\ \A i \in 1..Len(before) : after[i].int_label = before[i].int_label
    /\ \A i \in 1..Len(after) :
          /\ after[i].is_imported = (after[i].int_label \in declared)
          /\ ~after[i].is_imported => after[i].blender_object \in Range(removal)

\* C4: after a pass that reaches the Symbol table line, is_imported is true
\* exactly for the entities the log of this pass declares; an entity the log no
\* longer declares stays in the registry with the flag false and its Blender
\* object is in the returned removal list.
C4_ImportedIffDeclared ==
    [][(ParseStep /\ pass_end' = "marker")
         => /\ FlagsAsDeclared(nd, nd', log_nodes', obj_names')
            /\ FlagsAsDeclared(ed, ed', log_elems', obj_names')]_vars

\* a complete pass has left a bound node of an earlier import stale and scheduled
\* for removal, next to a node it declared
C4_Witness ==
    /\ lastOp = "parse_log_file" /\ pass_end = "marker"
    /\ \E i, j \in 1..Len(nd) :
          /\ ~nd[i].is_imported /\ nd[i].int_label \notin log_nodes
          /\ nd[i].blender_object # "none"
          /\ nd[i].blender_object \in Range(obj_names)
          /\ nd[j].is_imported /\ nd[j].int_label \in log_nodes

\* C5: a pass aborted by an unsupported rotation parametrization leaves every
\* entry that existed before it as it was, leaves no entity created by the rows
\* read before the abort, and schedules no entity that the log declares.
C5_AbortLeavesRegistry ==
    [][(ParseStep /\ pass_end' = "rotation")
         => /\ nd' = nd
            /\ ed' = ed
            /\ \A i \in 1..Len(nd') :
                  (nd'[i].int_label \in log_nodes' /\ nd'[i].blender_object # "none")
                      => nd'[i].blender_object \notin Range(obj_names')
            /\ \A i \in 1..Len(ed') :
                  (ed'[i].int_label \in log_elems' /\ ed'[i].blender_object # "none")
                      => ed'[i].blender_object \notin Range(obj_names')]_vars

\* C6: when the .log file cannot be opened, a non-empty registry is left as it was
\* and the returned list of entities to remove is empty.
C6_LogNotFoundLeavesRegistry ==
    [][(ParseStep /\ pass_end' = "nolog" /\ ReImport)
         => (nd' = nd /\ ed' = ed /\ obj_names' = <<>>)]_vars

(* ========================= the label resolver ========================== *)
(* bounds *)
\* largest number of lines of a log handed to assign_labels
MaxLines == 2

(* ---------------------- Python's string operations --------------------- *)
\* s[i] for a 0-based index i
CharAt(s, i) == SubSeq(s, i + 1, i + 1)

IsSpace(c) == c \in {" ", "\n", "\t", "\r"}

RECURSIVE rstrip(_)
rstrip(s) ==
    IF Len(s) > 0 /\ IsSpace(CharAt(s, Len(s) - 1))
    THEN rstrip(SubSeq(s, 1, Len(s) - 1)) ELSE s

RECURSIVE lstrip(_)
lstrip(s) ==
    IF Len(s) > 0 /\ IsSpace(CharAt(s, 0)) THEN lstrip(SubSeq(s, 2, Len(s))) ELSE s

strip(s) == lstrip(rstrip(s))

\* s.find(c): the 0-based index of the first c in s, -1 when there is none
RECURSIVE FindChar(_, _, _)
FindChar(s, c, i) ==
    IF i >= Len(s) THEN -1 ELSE IF CharAt(s, i) = c THEN i ELSE FindChar(s, c, i + 1)
find(s, c) == FindChar(s, c, 0)

\* s[a:b]
Slice(s, a, b) ==
    LET clip(i) == IF i < 0 THEN (IF Len(s) + i < 0 THEN 0 ELSE Len(s) + i)
                   ELSE IF i > Len(s) THEN Len(s) ELSE i
    IN  SubSeq(s, clip(a) + 1, clip(b))

\* sub in s
Contains(sub, s) ==
    \E i \in 0..(Len(s) - Len(sub)) : SubSeq(s, i + 1, i + Len(sub)) = sub

Digits == <<"0", "1", "2", "3", "4", "5", "6", "7", "8", "9">>
IsDigit(c) == \E d \in 1..10 : Digits[d] = c
DigitValue(c) == (CHOOSE d \in 1..10 : Digits[d] = c) - 1

RECURSIVE DecimalValue(_, _)
DecimalValue(s, acc) ==
    IF Len(s) = 0 THEN acc
    ELSE DecimalValue(SubSeq(s, 2, Len(s)), 10 * acc + DigitValue(CharAt(s, 0)))

\* int(s): an optional sign and decimal digits, ValueError otherwise
int(s) ==
    LET signed == Len(s) > 0 /\ CharAt(s, 0) \in {"+", "-"}
        body   == IF signed THEN SubSeq(s, 2, Len(s)) ELSE s
        ok     == Len(body) > 0 /\ \A i \in 0..(Len(body) - 1) : IsDigit(CharAt(body, i))
    IN  IF ~ok THEN [ok |-> FALSE, val |-> 0]
        ELSE [ok |-> TRUE,
              val |-> IF signed /\ CharAt(s, 0) = "-" THEN 0 - DecimalValue(body, 0)
                      ELSE DecimalValue(body, 0)]

(* --------------------------- assign_labels ----------------------------- *)
set_strings_any == <<"  const integer", "  integer">>

set_strings_node == <<"  const integer Node_", "  integer Node_",
                      "  const integer node_", "  integer node_",
                      "  const integer NODE_", "  integer NODE_">>

\* lines 560-565: no comma between the second and the third literal
set_strings_joint == <<"  const integer Joint_",
                       "  integer Joint_" \o "  const integer joint_",
                       "  integer joint_",
                       "  const integer JOINT_", "  integer JOINT_">>

set_strings_beam == <<"  const integer Beam_", "  integer Beam_",
                      "  const integer beam_", "  integer beam_",
                      "  const integer BEAM_", "  integer BEAM_">>

set_strings_refs == <<"  const integer Ref_", "  integer Ref_",
                      "  const integer ref_", "  integer ref_",
                      "  const integer REF_", "  integer REF_",
                      "  const integer Reference_", "  integer Reference_",
                      "  const integer reference_", "  integer reference_",
                      "  const integer REFERENCE_", "  integer REFERENCE_">>

\* the first string of a list that occurs in the line, "" when none does
RECURSIVE FirstIn(_, _, _)
FirstIn(strings, line, i) ==
    IF i > Len(strings) THEN ""
    ELSE IF Contains(strings[i], line) THEN strings[i]
    ELSE FirstIn(strings, line, i + 1)

\* the label text cut after the whole prefix, in either mode
label_str_after_prefix(free_labels, line_str, entity_type, set_string, eq_idx) ==
    strip(Slice(line_str, Len(set_string), eq_idx - 1))

\* lines 591-594: the label text of an assignment line
label_str(free_labels, line_str, entity_type, set_string, eq_idx) ==
    IF free_labels THEN strip(Slice(line_str, Len(set_string), eq_idx - 1))
    ELSE strip(Slice(line_str, Len(set_string) - Len(entity_type) - 1, eq_idx - 1))

\* lines 588-594: what assign_label reads from a line
ReadAssignment(free_labels, line, entity_type, set_string) ==
    LET line_str == rstrip(line)
        eq_idx   == find(line_str, "=") + 1
        n        == int(strip(Slice(line_str, eq_idx, Len(line_str))))
    IN  [ok |-> n.ok, label_int |-> n.val,
         label_str |-> IF n.ok
                       THEN label_str(free_labels, line_str, entity_type, set_string, eq_idx)
                       ELSE ""]

\* a record is added when no record has the int_label
assign_label_adding(the_dict, a) ==
    LET m(item) == item.int_label = a.label_int
        i == FindFrom(the_dict, m, 1)
    IN  IF i = 0
        THEN [dict |-> Append(the_dict, [int_label |-> a.label_int,
                                         string_label |-> a.label_str]),
              changed |-> 1]
        ELSE IF the_dict[i].string_label # a.label_str
        THEN [dict |-> [the_dict EXCEPT ![i].string_label = a.label_str], changed |-> 1]
        ELSE [dict |-> the_dict, changed |-> 0]

\* lines 596-605: the first record with the int_label takes the label
assign_label(the_dict, a) ==
    LET m(item) == item.int_label = a.label_int
        i == FindFrom(the_dict, m, 1)
    IN  IF i > 0 /\ the_dict[i].string_label # a.label_str
        THEN [dict |-> [the_dict EXCEPT ![i].string_label = a.label_str], changed |-> 1]
        ELSE [dict |-> the_dict, changed |-> 0]

\* lines 610-644: the kind of a line and the prefix string that recognised it
Recognised(free_labels, line) ==
    LET any   == FirstIn(set_strings_any, line, 1)
        node  == FirstIn(set_strings_node, line, 1)
        joint == FirstIn(set_strings_joint, line, 1)
        beam  == FirstIn(set_strings_beam, line, 1)
        ref   == FirstIn(set_strings_refs, line, 1)
    IN  IF free_labels THEN [entity_type |-> "", set_string |-> any]
        ELSE IF node # "" THEN [entity_type |-> "node", set_string |-> node]
        ELSE IF joint # "" THEN [entity_type |-> "joint", set_string |-> joint]
        ELSE IF beam # "" THEN [entity_type |-> "beam", set_string |-> beam]
        ELSE [entity_type |-> "ref", set_string |-> ref]

\* the lines of the logs handed to the label resolver
LogLines ==
    {"  integer Node_42 = 17\n",
     "  const integer node_7 = 17\n",
     "  integer NODE_7 = 5\n",
     "  integer Node_42 = 9\n",
     "  integer Beam_3 = 17\n",
     "  const integer Joint_8 = 17\n",
     "  integer Ref_2 = 1\n",
     "  integer Node_4 = 1x\n",
     "  integer Node_9\n",
     "  integer Joint_8 = 17\n",
     "Symbol table:\n"}

\* what each line of LogLines is read as, in free and in standard mode
Reading ==
    [free_labels \in BOOLEAN |-> [line \in LogLines |->
        LET r == Recognised(free_labels, line) IN
        IF r.set_string = "" THEN [entity_type |-> "", found |-> FALSE]
        ELSE [entity_type |-> r.entity_type, found |-> TRUE,
              a |-> ReadAssignment(free_labels, line, r.entity_type, r.set_string)]]]

\* lines 610-644 for one line, on st = the three registries, labels_changed and
\* the exception that has left assign_label ("" when none has)
AssignLine(free_labels, st, line) ==
    LET r == Reading[free_labels][line]
        n == assign_label(st.nd, r.a)
        e == assign_label(st.ed, r.a)
        f == assign_label(st.rd, r.a)
    IN  IF ~r.found THEN st
        ELSE IF ~r.a.ok THEN [st EXCEPT !.exc = "EXC_ValueError"]
        ELSE IF free_labels
        THEN [nd |-> n.dict, ed |-> e.dict, rd |-> f.dict, exc |-> "",
              labels_changed |-> st.labels_changed + n.changed + e.changed + f.changed]
        ELSE IF r.entity_type = "node"
        THEN [st EXCEPT !.nd = n.dict, !.labels_changed = @ + n.changed]
        ELSE IF r.entity_type = "ref"
        THEN [st EXCEPT !.rd = f.dict, !.labels_changed = @ + f.changed]
        ELSE [st EXCEPT !.ed = e.dict, !.labels_changed = @ + e.changed]

RECURSIVE AssignLines(_, _, _, _)
AssignLines(free_labels, st, lines, i) ==
    IF i > Len(lines) \/ st.exc # "" THEN st
    ELSE AssignLines(free_labels, AssignLine(free_labels, st, lines[i]), lines, i + 1)

\* assign_labels(context) on the log lf (lf.exists: the file opens): the three
\* registries after the call and the returned status
assign_labels(free_labels, nodes, elems, refs, lf) ==
    LET st == AssignLines(free_labels,
                          [nd |-> nodes, ed |-> elems, rd |-> refs, exc |-> "",
                           labels_changed |-> 0], lf.lines, 1)
    IN  IF ~lf.exists
        THEN [nd |-> nodes, ed |-> elems, rd |-> refs, ret_val |-> "FILE_NOT_FOUND"]
        ELSE [nd |-> st.nd, ed |-> st.ed, rd |-> st.rd,
              ret_val |-> IF st.exc # "" THEN st.exc
                          ELSE IF st.labels_changed > 0 THEN "LABELS_UPDATED"
                          ELSE "NOTHING_DONE"]

AssignLabels(free_labels, lf) ==
    \E r \in {assign_labels(free_labels, nd, ed, rd, lf)} :
        /\ nd' = r.nd
        /\ ed' = r.ed
        /\ rd' = r.rd
        /\ ret_val' = r.ret_val
        /\ lastOp' = "assign_labels"
        /\ UNCHANGED <<is_ready, min_node_import, max_node_import, min_elem_import,
                       max_elem_import, num_rows, num_nodes, num_timesteps, end_time,
                       obj_names, pass_ret, pass_end, log_nodes, log_elems,
                       rerun_base, reader, eigensolutions>>
        /\ UNCHANGED buildvars

\* the model whose labels are resolved: nodes 17 and 5, a beam 17 between them,
\* one reference frame
LabelledModel ==
    [log |-> [exists |-> TRUE,
              rows |-> <<NodeRow(17, "PHI"), NodeRow(5, "PHI"),
                         Beam2Row(17, 17, 0, 5, 0), MarkerRow>>],
     out |-> TRUE, mov |-> {17, 5}]

LabelLogs ==
    {[exists |-> FALSE, lines |-> <<>>]}
    \cup {[exists |-> TRUE, lines |-> l] : l \in SeqsUpTo(LogLines, MaxLines)}

\* the session after the import of LabelledModel
InitLabels ==
    \E r \in {parse_log_file(EmptySession, LabelledModel)} :
        /\ SessionIs(r)
        /\ lastOp = "parse_log_file"
        /\ log_nodes = {17, 5}
        /\ log_elems = {17}
        /\ rerun_base = NoRerun
        /\ rd = <<[int_label |-> 1, string_label |-> NoneStr]>>
        /\ reader = NoReader
        /\ eigensolutions = <<>>
        /\ NoBuild

NextLabels == \E free_labels \in BOOLEAN : \E lf \in LabelLogs : AssignLabels(free_labels, lf)

SpecLabels == InitLabels /\ [][NextLabels]_vars

\* C10: in standard label mode the line `integer Node_42 = 17` makes assign_labels
\* set the string label of the node whose int_label is 17 to "42" and leaves the
\* string label of every other node as it was.
C10_Log == [exists |-> TRUE, lines |-> <<"  integer Node_42 = 17\n">>]

C10_LabelIsNumber ==
    [][AssignLabels(FALSE, C10_Log)
         => /\ Len(nd') = Len(nd)
            /\ \A i \in 1..Len(nd) :
                 nd'[i].string_label = IF nd[i].int_label = 17 THEN "42"
                                       ELSE nd[i].string_label]_vars

\* C10, as the code has it: the line sets the string label of node 17 to
\* "Node_42", the kind prefix included, changes no other field of that node and
\* leaves every other node, every element and every reference as it was.
C10_LabelKeepsPrefix ==
    [][AssignLabels(FALSE, C10_Log)
         => /\ Len(nd') = Len(nd)
            /\ \A i \in 1..Len(nd) :
                 nd'[i] = IF nd[i].int_label = 17
                          THEN [nd[i] EXCEPT !.string_label = "Node_42"]
                          ELSE nd[i]
            /\ ed' = ed
            /\ rd' = rd]_vars

\* assign_labels in standard mode has just given node 17 the label of the line,
\* node 5 has the label that an earlier call gave it
C10_Witness ==
    /\ lastOp = "assign_labels"
    /\ ret_val = "LABELS_UPDATED"
    /\ \E i, j \in 1..Len(nd) :
          /\ nd[i].int_label = 17 /\ nd[i].string_label = "Node_42"
          /\ nd[j].int_label = 5 /\ nd[j].string_label = "NODE_7"
    /\ \A i \in 1..Len(ed) : ed[i].string_label = NoneStr

(* ------------------- properties of the label resolver ------------------ *)
\* the values of the assignment lines of a log that assign_labels recognises
AssignedValues(free_labels, lf) ==
    {Reading[free_labels][lf.lines[i]].a.label_int :
        i \in {j \in 1..Len(lf.lines) :
                  /\ Reading[free_labels][lf.lines[j]].found
                  /\ Reading[free_labels][lf.lines[j]].a.ok}}

\* the registry holds the same records but for the string label of records with
\* one of the given int_labels
SameButLabels(before, after, values) ==
    /\ Len(after) = Len(before)
    /\ \A i \in 1..Len(before) :
          /\ after[i] = [before[i] EXCEPT !.string_label = after[i].string_label]
          /\ (after[i].string_label # before[i].string_label
                 => before[i].int_label \in values)

\* C11: assign_labels never adds or removes an entity and never changes an
\* int_label: in either label mode and for any log, the three registries hold the
\* same records afterwards, and the only field that may differ is string_label of
\* records whose int_label is the value of a recognised assignment line.
C11_OnlyStringLabels ==
    \A free_labels \in BOOLEAN : \A lf \in LabelLogs :
        \E r \in {assign_labels(free_labels, nd, ed, rd, lf)} :
            /\ SameButLabels(nd, r.nd, AssignedValues(free_labels, lf))
            /\ SameButLabels(ed, r.ed, AssignedValues(free_labels, lf))
            /\ SameButLabels(rd, r.rd, AssignedValues(free_labels, lf))

\* assign_labels has labelled the beam 17 and the node 5, the node 17 and the
\* reference frame have the label they had
C11_Witness ==
    /\ lastOp = "assign_labels"
    /\ \E i \in 1..Len(ed) : ed[i].int_label = 17 /\ ed[i].string_label = "Beam_3"
    /\ \E i, j \in 1..Len(nd) :
          /\ nd[i].int_label = 17 /\ nd[i].string_label = NoneStr
          /\ nd[j].int_label = 5 /\ nd[j].string_label = "NODE_7"
    /\ \A i \in 1..Len(rd) : rd[i].string_label = NoneStr

LabelStatuses == {"FILE_NOT_FOUND", "LABELS_UPDATED", "NOTHING_DONE"}

\* C12: assign_labels always ends with exactly one of three statuses and lets no
\* exception escape: FILE_NOT_FOUND when the log cannot be opened; otherwise, for
\* every content of a readable log (a recognised prefix with no '=' or with a
\* right-hand side that is no integer included), LABELS_UPDATED if the call
\* changed a string label and NOTHING_DONE if it changed none.
C12_ThreeStatuses ==
    /\ lastOp = "assign_labels" => ret_val \in LabelStatuses
    /\ \A free_labels \in BOOLEAN : \A lf \in LabelLogs :
          \E r \in {assign_labels(free_labels, nd, ed, rd, lf)} :
              r.ret_val \in LabelStatuses =>
                 /\ (r.ret_val = "FILE_NOT_FOUND") = ~lf.exists
                 /\ (<<r.nd, r.ed, r.rd>> # <<nd, ed, rd>> => r.ret_val = "LABELS_UPDATED")
                 /\ (r.ret_val = "NOTHING_DONE" => <<r.nd, r.ed, r.rd>> = <<nd, ed, rd>>)

\* the kind prefixes of the standard mode in their three spellings, and the
\* registry that each names
KindPrefixes ==
    {[prefix |-> x, registry |-> "nd"] : x \in {"Node_", "node_", "NODE_"}}
    \cup {[prefix |-> x, registry |-> "ed"] :
             x \in {"Joint_", "joint_", "JOINT_", "Beam_", "beam_", "BEAM_"}}
    \cup {[prefix |-> x, registry |-> "rd"] :
             x \in {"Ref_", "ref_", "REF_", "Reference_", "reference_", "REFERENCE_"}}
Declarators == {"  integer ", "  const integer "}
StartsWith(s, p) == Len(s) >= Len(p) /\ SubSeq(s, 1, Len(p)) = p

\* the assignment `<declarator><name> = <value>` that a line of the symbol table
\* makes to a name with a kind prefix
KindAssignments(line) ==
    {[registry |-> k.registry,
      name |-> strip(Slice(rstrip(line), Len(d), find(rstrip(line), "="))),
      value |-> int(strip(Slice(rstrip(line), find(rstrip(line), "=") + 1, Len(line))))] :
        <<d, k>> \in {p \in Declarators \X KindPrefixes :
                         /\ StartsWith(line, p[1] \o p[2].prefix)
                         /\ find(line, "=") >= 0}}

\* the first record of the registry with the value as int_label has the name as
\* string label
LabelApplied(registry, a) ==
    LET m(item) == item.int_label = a.value.val
        i == FindFrom(registry, m, 1)
    IN  i > 0 => registry[i].string_label = a.name

\* C13: in standard label mode every symbol-table assignment whose name starts
\* with one of the kind prefixes Node_, Joint_, Beam_, Ref_ or Reference_ is
\* recognised, whatever the case of the prefix and whether the line is declared
\* `integer` or `const integer`, and is applied to the node registry (Node_), the
\* element registry (Joint_, Beam_) or the reference registry (Ref_, Reference_).
C13_KindPrefixRecognised ==
    [][\A line \in LogLines : \A a \in KindAssignments(line) :
          (a.value.ok /\ AssignLabels(FALSE, [exists |-> TRUE, lines |-> <<line>>]))
             => /\ a.registry = "nd" => LabelApplied(nd', a)
                /\ a.registry = "ed" => LabelApplied(ed', a)
                /\ a.registry = "rd" => LabelApplied(rd', a)]_vars

(* ===================== the text reader (.mov file) ===================== *)
(* bounds *)
\* number of timesteps recorded in the output files (.mov, .mod, NetCDF)
MovSteps == 4

\* int(n/Den) and np.ceil(n/Den) for n >= 0
Floor(n) == n \div Den
Ceil(n) == (n + Den - 1) \div Den

\* load frequencies 1, 1 + 1/Den, ... below 3
Frequencies == Den..(3 * Den - 1)

\* lines 798-802
FrameStart(start, freq) == (start * Den) \div freq
FrameEnd(end, freq) == (end * Den) \div freq + 1
LoopBound(frame, freq) == Floor(frame * freq)

\* labels of the rows of a block whose node is bound and has output (lines 1066-1075)
AnimObjs(rows) ==
    {rows[i].label : i \in {j \in 1..Len(rows) :
        LET k == FindNode(nd, rows[j].label) IN
        k > 0 /\ nd[k].blender_object # "none" /\ nd[k].output}}

\* the name of the object that a node label is bound to
BoundObject(l) == nd[FindNode(nd, l)].blender_object

\* set_obj_locrot_mov() on the rows of labels in objs: value(i) is what row i gives
Posed(rows, objs, value(_)) ==
    [name \in DOMAIN location |->
        IF \E i \in 1..Len(rows) : rows[i].label \in objs /\ BoundObject(rows[i].label) = name
        THEN value(CHOOSE i \in 1..Len(rows) :
                      rows[i].label \in objs /\ BoundObject(rows[i].label) = name)
        ELSE location[name]]

\* lines 1121-1129: the simulation time of each frame
SimTimes(loop_start, loop_end, freq) ==
    LET count(lo, hi) == IF hi > lo THEN ((hi - lo) * Den + freq - 1) \div freq ELSE 0
        skipped == count(0, loop_start)
        shown   == count(loop_start, loop_end)
    IN  [i \in 1..(skipped + shown) |->
            IF i <= skipped THEN 0 ELSE loop_start * Den + (i - skipped - 1) * freq]

\* the row that the interpolated branch hands to set_obj_locrot_mov (line 1102)
Answer(frac, first, second) == frac * first.x + (Den - frac) * second.x

\* Nskip_mov of a frame (lines 1087-1088)
Nskip(frame, freq, n) ==
    IF freq > Den THEN (Floor(frame) - Floor(frame - freq) - 2) * n ELSE 0

\* the part of the session that an animation build leaves alone
SessionFrame ==
    UNCHANGED <<nd, ed, is_ready, min_node_import, max_node_import, min_elem_import,
                max_elem_import, num_rows, num_nodes, num_timesteps, obj_names,
                pass_ret, pass_end, log_nodes, log_elems, rerun_base, reader, eigensolutions, rd, mov, mod,
                use_netcdf, num_modal_modes, load_frequency>>
\* no dataset is opened: the text backend, and the setters, whose Dataset object
\* is released when they return
BuildFrame == SessionFrame /\ UNCHANGED nc

\* set_motion_paths_mov(context) without a .mod file, up to the end of its first
\* frame (lines 776-809, 1050-1079)
MovBegin ==
    /\ build.pc = "idle"
    /\ lastOp' = "set_motion_paths_mov"
    /\ BuildFrame
    /\ UNCHANGED <<start_time, end_time, simtime>>
    /\ IF ~is_ready
       THEN /\ ret_val' = "CANCELLED"
            /\ UNCHANGED <<frame_start, frame_end, frame_current, progress, location,
                           build>>
       ELSE LET fs == FrameStart(start_time, load_frequency)
                fe == FrameEnd(end_time, load_frequency)
                c  == start_time * num_nodes + num_nodes
                rows == SubSeq(mov, c - num_nodes + 1, c)
                whole(i) == Den * rows[i].x
                \* the rows of the block that are read before the stream ends
                partial == SubSeq(mov, c - num_nodes + 1, Len(mov))
                part(i) == Den * partial[i].x
            IN  /\ frame_start' = fs
                /\ frame_end' = fe
                /\ frame_current' = fs
                /\ progress' = [open |-> TRUE, value |-> fs]
                /\ IF c > Len(mov)
                   THEN \* next(reader_mov) raises StopIteration, which nothing
                        \* catches; each row read before it was posed at once
                        /\ ret_val' = "EXC_StopIteration"
                        /\ location' = Posed(partial, AnimObjs(partial), part)
                        /\ UNCHANGED build
                   ELSE /\ ret_val' = ""
                        /\ location' = Posed(rows, AnimObjs(rows), whole)
                        /\ build' = [pc |-> "loop", reader_mov |-> c,
                                     first_mov |-> rows, second_mov |-> rows,
                                     aliased |-> FALSE, anim_objs |-> AnimObjs(rows),
                                     loop_start |-> LoopBound(fs, load_frequency),
                                     loop_end |-> LoopBound(fe, load_frequency),
                                     frame |-> LoopBound(fs, load_frequency) * Den,
                                     idx |-> 0]

\* one pass of the main loop of set_motion_paths_mov (lines 1080-1115)
MovFrame ==
    LET freq  == load_frequency
        frame == build.frame + freq
        Nskip_mov == Nskip(frame, freq, num_nodes)
        c1 == IF Nskip_mov >= 0 THEN build.reader_mov + Nskip_mov + num_nodes
              ELSE build.reader_mov
        c2 == IF freq > Den THEN c1 + num_nodes ELSE c1
        read1  == IF Nskip_mov >= 0 THEN SubSeq(mov, c1 - num_nodes + 1, c1)
                  ELSE build.first_mov
        second_mov == IF freq > Den THEN SubSeq(mov, c2 - num_nodes + 1, c2)
                      ELSE build.second_mov
        \* after line 1108 both names are one list: what is read into first_mov is
        \* overwritten by what is read into second_mov
        first_mov == IF build.aliased THEN second_mov ELSE read1
        frac == Ceil(frame) * Den - frame
        answer(i) == Answer(frac, first_mov[i], second_mov[i])
        whole(i) == Den * first_mov[i].x
        missing == {i \in 1..Len(first_mov) : first_mov[i].label \notin build.anim_objs}
        upto(k) == {first_mov[i].label : i \in 1..(k - 1)}
    IN  /\ build.pc = "loop"
        /\ frame < build.loop_end * Den
        /\ lastOp' = "set_motion_paths_mov"
        /\ BuildFrame
        /\ UNCHANGED <<start_time, end_time, simtime, frame_start, frame_end>>
        /\ frame_current' = frame_current + 1
        /\ IF c2 > Len(mov)
           THEN \* next(reader_mov) raises StopIteration, which nothing catches
                /\ ret_val' = "EXC_StopIteration"
                /\ build' = Idle
                /\ UNCHANGED <<location, progress>>
           ELSE IF freq > Den
           THEN /\ location' = Posed(first_mov, build.anim_objs, answer)
                /\ build' = [build EXCEPT !.reader_mov = c2, !.first_mov = second_mov,
                                          !.second_mov = second_mov, !.aliased = TRUE,
                                          !.frame = frame, !.idx = @ + 1]
                /\ progress' = [progress EXCEPT !.value = frame_current']
                /\ ret_val' = ""
           ELSE IF missing # {}
           THEN \* line 1112: the lookup of an unbound node raises KeyError
                /\ ret_val' = "EXC_KeyError"
                /\ location' = Posed(first_mov, upto(CHOOSE k \in missing :
                                        \A m \in missing : k <= m), whole)
                /\ build' = Idle
                /\ UNCHANGED progress
           ELSE /\ location' = Posed(first_mov, build.anim_objs, whole)
                /\ build' = [build EXCEPT !.reader_mov = c2, !.first_mov = first_mov,
                                          !.frame = frame, !.idx = @ + 1]
                /\ progress' = [progress EXCEPT !.value = frame_current']
                /\ ret_val' = ""

\* the end of set_motion_paths_mov (lines 1118-1130)
MovEnd ==
    /\ build.pc = "loop"
    /\ build.frame + load_frequency >= build.loop_end * Den
    /\ lastOp' = "set_motion_paths_mov"
    /\ BuildFrame
    /\ UNCHANGED <<start_time, end_time, frame_start, frame_end, frame_current,
                   location>>
    /\ progress' = [progress EXCEPT !.open = FALSE]
    /\ simtime' = SimTimes(build.loop_start, build.loop_end, load_frequency)
    /\ ret_val' = "FINISHED"
    /\ build' = Idle

\* the user sets mbs.start_time to v: update_start_time(); the time variable of
\* the dataset holds 0, 1, ..., nc.time - 1
update_start_time(v) ==
    /\ build.pc = "idle"
    /\ start_time' = IF use_netcdf THEN (IF v < 0 THEN 0 ELSE v)
                     ELSE IF v >= num_timesteps THEN num_timesteps - 1 ELSE v
    /\ lastOp' = "update_start_time"
    /\ BuildFrame
    /\ UNCHANGED <<ret_val, end_time, frame_start, frame_end, frame_current, simtime,
                   progress, location, build>>

\* the user sets mbs.end_time to v: update_end_time()
update_end_time(v) ==
    /\ build.pc = "idle"
    /\ end_time' = IF use_netcdf THEN (IF v - (nc.time - 1) > 1 THEN nc.time - 1 ELSE v)
                   ELSE IF v > num_timesteps THEN num_timesteps ELSE v
    /\ lastOp' = "update_end_time"
    /\ BuildFrame
    /\ UNCHANGED <<ret_val, start_time, frame_start, frame_end, frame_current,
                   simtime, progress, location, build>>

\* the user sets mbs.load_frequency
set_load_frequency(freq) ==
    /\ build.pc = "idle"
    /\ load_frequency' = freq
    /\ lastOp' = "load_frequency"
    /\ UNCHANGED <<nd, ed, is_ready, min_node_import, max_node_import, min_elem_import,
                   max_elem_import, num_rows, num_nodes, num_timesteps, obj_names,
                   pass_ret, pass_end, log_nodes, log_elems, rerun_base, reader, eigensolutions, rd, mov,
                   mod, nc, use_netcdf, num_modal_modes>>
    /\ UNCHANGED <<ret_val, start_time, end_time, frame_start, frame_end,
                   frame_current, simtime, progress, location, build>>

\* the model that is animated: two structural nodes
AnimatedModel ==
    [log |-> [exists |-> TRUE,
              rows |-> <<NodeRow(1, "PHI"), NodeRow(2, "PHI"), MarkerRow>>],
     out |-> TRUE, mov |-> {1, 2}]

\* a .mov file: per timestep one row for node 1 and one for node 2
MovFiles ==
    {[i \in 1..(2 * MovSteps) |->
        [label |-> 2 - (i % 2), x |-> d[(i + 1) \div 2] + 2 * (1 - (i % 2))]] :
     d \in [1..MovSteps -> {0, 1}]}

\* the nodes of the registry, those of labels in bound having been given an object
Bound(nodes, bound) ==
    [i \in 1..Len(nodes) |->
        IF nodes[i].int_label \in bound
        THEN [nodes[i] EXCEPT !.blender_object = ObjName("node", nodes[i].int_label)]
        ELSE nodes[i]]

\* the session after the import of AnimatedModel and the binding of its nodes
InitMov ==
    \E r \in {parse_log_file([EmptySession EXCEPT !.num_rows = 2 * MovSteps],
                             AnimatedModel)} :
    \E bound \in {{1, 2}, {1}} :
        /\ SessionIs([r EXCEPT !.nd = Bound(r.nd, bound)])
        /\ lastOp = "update_label"
        /\ log_nodes = {1, 2}
        /\ log_elems = {}
        /\ rerun_base = NoRerun
        /\ rd = <<>>
        /\ reader = NoReader
        /\ eigensolutions = <<>>
        /\ start_time = 0
        /\ load_frequency = Den
        /\ frame_start = 0
        /\ frame_end = 0
        /\ frame_current = 0
        /\ simtime = <<>>
        /\ progress = [open |-> FALSE, value |-> 0]
        /\ location = [name \in {ObjName("node", l) : l \in bound} |-> 0]
        /\ mov \in MovFiles
        /\ NoNetcdf
        /\ build = Idle

\* a session that sets the time range and the load frequency and then builds the
\* animation, once or again
NextMov ==
    \/ MovBegin
    \/ MovFrame
    \/ MovEnd
    \/ /\ lastOp # "set_motion_paths_mov"
       /\ \/ \E v \in 0..MovSteps : update_start_time(v)
          \/ \E v \in 0..(MovSteps + 1) : update_end_time(v)
          \/ \E freq \in Frequencies : set_load_frequency(freq)

SpecMov == InitMov /\ [][NextMov]_vars

(* ----------------------- properties of the text reader ----------------- *)
\* the row of node l at timestep b of the .mov file
RowAt(b, l) ==
    mov[CHOOSE i \in (b * num_nodes + 1)..((b + 1) * num_nodes) : mov[i].label = l]

\* frac * first + (1 - frac) * second for the rows of node l that bracket the raw
\* position t/Den, in units of 1/Den
Bracketed(t, l) ==
    LET frac == Ceil(t) * Den - t
    IN  frac * RowAt(Floor(t), l).x + (Den - frac) * RowAt(Ceil(t), l).x

\* C7: in the text backend, for every load_frequency >= 1 and every frame of a
\* build after the first, the row applied to a node at raw position t is
\* frac*first + (1 - frac)*second, first and second being the node's rows at
\* timesteps floor(t) and ceil(t) and frac = ceil(t) - t (the build starting at a
\* timestep that its first frame shows, t inside the recorded range).
C7_InterpolatedRow ==
    (/\ lastOp = "set_motion_paths_mov"
     /\ build.pc = "loop"
     /\ build.idx >= 1
     /\ build.loop_start = start_time
     /\ Ceil(build.frame) < num_timesteps)
        => \A l \in build.anim_objs : location[BoundObject(l)] = Bracketed(build.frame, l)

\* the nodes of the registry that a build has nothing to pose: no object or no
\* recorded output
Unposed == {i \in 1..Len(nd) : nd[i].blender_object = "none" \/ ~nd[i].output}

\* C14: during an animation build, for every load_frequency (1 included), a node
\* without a visual binding or without recorded output is skipped for the frame
\* and the build goes on with the next node: the lookup miss never leaves
\* set_motion_paths_mov as an exception.
C14_LookupMissSkipped ==
    (lastOp = "set_motion_paths_mov" /\ Unposed # {}) => ret_val # "EXC_KeyError"

\* .mov files that end one row before the end of their last timestep
TruncatedMovFiles == {SubSeq(f, 1, Len(f) - 1) : f \in MovFiles}

\* the session of InitMov, the .mov file having been cut short after the import
InitMovTruncated ==
    \E r \in {parse_log_file([EmptySession EXCEPT !.num_rows = 2 * MovSteps],
                             AnimatedModel)} :
    \E bound \in {{1, 2}, {1}} :
        /\ SessionIs([r EXCEPT !.nd = Bound(r.nd, bound)])
        /\ lastOp = "update_label"
        /\ log_nodes = {1, 2}
        /\ log_elems = {}
        /\ rerun_base = NoRerun
        /\ rd = <<>>
        /\ reader = NoReader
        /\ eigensolutions = <<>>
        /\ start_time = 0
        /\ load_frequency = Den
        /\ frame_start = 0
        /\ frame_end = 0
        /\ frame_current = 0
        /\ simtime = <<>>
        /\ progress = [open |-> FALSE, value |-> 0]
        /\ location = [name \in {ObjName("node", l) : l \in bound} |-> 0]
        /\ mov \in TruncatedMovFiles
        /\ NoNetcdf
        /\ build = Idle

SpecMovTruncated == InitMovTruncated /\ [][NextMov]_vars

\* C15: when the .mov stream ends before all rows of a requested timestep have
\* been read, set_motion_paths_mov stops at the last complete timestep, applies
\* no pose computed from a partial block and reports the truncation through its
\* return status: the end of the stream does not leave it as an exception.
C15_TruncationReported ==
    (lastOp = "set_motion_paths_mov" /\ Len(mov) < num_rows)
        => ret_val # "EXC_StopIteration"

\* C18: for every animation build, each progress_begin is followed by exactly one
\* progress_end before the operation returns, on every exit path (normal end,
\* CANCELLED return, end of stream, lookup error), and the values passed to
\* progress_update between them are strictly increasing.
C18_ProgressPaired ==
    [][/\ (lastOp' = "set_motion_paths_mov" /\ build'.pc = "idle") => ~progress'.open
       /\ (build.pc = "loop" /\ build'.pc = "loop" /\ build.idx >= 1)
             => progress'.value > progress.value]_vars

(* ====================== the NetCDF reader (.nc, .mod) ================== *)
\* Vector.lerp(): a, b raw values and fac in units of 1/Den, result in 1/Den
Lerp(a, b, fac) == (Den - fac) * a + fac * b

\* the weights the other way round
netcdf_helper_swapped(var, frame, freq) ==
    LET tdx  == frame * freq
        frac == Ceil(tdx) * Den - tdx
    IN  Lerp(var[Floor(tdx) + 1], var[Ceil(tdx) + 1], frac)

\* netcdf_helper(nc, scene, key): var the samples of nc.variables[key],
\* frame = scene.frame_current
netcdf_helper(var, frame, freq) ==
    LET tdx    == frame * freq
        frac   == Ceil(tdx) * Den - tdx
        first  == var[Floor(tdx) + 1]
        second == var[Ceil(tdx) + 1]
    IN  Lerp(first, second, Den - frac)

\* lines 1529-1574: the nodes that a frame poses, in registry order
AnimNodes ==
    {i \in 1..Len(nd) : nd[i].blender_object # "none" /\ nd[i].output}

\* the modal records of one frame on the modal nodes: recs[i].q is the modal
\* coordinate in units of 1/Den, sets_flag what `if not flag:` assigns to flag
\* after a record (lines 1346-1347, 1410-1411, 1457-1458); the parent node's
\* world transform is the translation by its location
RECURSIVE Superpose(_, _, _, _, _, _)
Superpose(recs, i, flag, mode_counter, sets_flag, loc) ==
    IF i > Len(recs) THEN loc
    ELSE LET rec == recs[i]
             elem == ed[FindElem(ed, "modal", rec.elem)]
             elem_nodeOJB == loc[BoundObject(elem.nodes[1])]
             counter == mode_counter + 1
             hit(name) == {k \in 1..Len(elem.modal_node) :
                              /\ elem.modal_node[k].blender_object = name
                              /\ rec.mode \in DOMAIN elem.modal_node[k].mode}
             posed == [name \in DOMAIN loc |->
                 IF hit(name) = {} THEN loc[name]
                 ELSE LET node == elem.modal_node[CHOOSE k \in hit(name) : TRUE] IN
                      IF ~flag
                      THEN elem_nodeOJB + Den * node.relative_pos
                               + rec.q * node.mode[rec.mode]
                      ELSE loc[name] + ((rec.q * node.mode[rec.mode] + elem_nodeOJB)
                                           - elem_nodeOJB)]
             flagged == IF ~flag THEN sets_flag ELSE flag
             last == counter = Cardinality(DOMAIN elem.modal_node[1].mode)
         IN  Superpose(recs, i + 1, IF last THEN FALSE ELSE flagged,
                       IF last THEN 0 ELSE counter, sets_flag, posed)

\* a block of records with the coordinates of the interpolated branch
Answers(frac, first_mod, second_mod) ==
    [i \in 1..Len(first_mod) |->
        [first_mod[i] EXCEPT !.q = frac * first_mod[i].q + (Den - frac) * second_mod[i].q]]

\* set_motion_modal_nodes(context, reader_mod, first_mod, second_mod, nctime, frame)
\* called with the locals b of the build at scene frame `frame`, nctime[0] = 0
set_motion_modal_nodes(b, frame, loc) ==
    LET freq == load_frequency
        M == num_modal_modes
        block(c) == SubSeq(mod, c - M + 1, c)
        Nskip_mod == IF freq > Den
                     THEN (Floor(frame * freq) - Floor((frame - 1) * freq) - 2) * M
                     ELSE 0
        c1 == IF Nskip_mod >= 0 THEN b.reader_mod + Nskip_mod + M ELSE b.reader_mod
        c2 == IF freq > Den THEN c1 + M ELSE c1
        read1 == IF Nskip_mod >= 0 THEN block(c1) ELSE b.first_mod
        second_mod == IF freq > Den THEN block(c2) ELSE b.second_mod
        first_mod == IF b.aliased THEN second_mod ELSE read1
        frac == Ceil(frame * Den) * Den - frame * Den
        whole(recs) == Answers(0, recs, recs)
    IN  IF frame = frame_start
        THEN IF b.reader_mod + M > Len(mod) THEN [eof |-> TRUE]
             ELSE [eof |-> FALSE, reader_mod |-> b.reader_mod + M,
                   first_mod |-> block(b.reader_mod + M),
                   second_mod |-> block(b.reader_mod + M), aliased |-> FALSE,
                   used |-> whole(block(b.reader_mod + M)),
                   location |-> Superpose(whole(block(b.reader_mod + M)), 1, FALSE, 0,
                                          TRUE, loc)]
        ELSE IF c2 > Len(mod) THEN [eof |-> TRUE]
        ELSE IF freq > Den
        THEN [eof |-> FALSE, reader_mod |-> c2, first_mod |-> second_mod,
              second_mod |-> second_mod, aliased |-> TRUE,
              used |-> Answers(frac, first_mod, second_mod),
              location |-> Superpose(Answers(frac, first_mod, second_mod), 1, FALSE, 0,
                                     TRUE, loc)]
        ELSE [eof |-> FALSE, reader_mod |-> c2, first_mod |-> first_mod,
              second_mod |-> second_mod, aliased |-> b.aliased,
              used |-> whole(first_mod),
              location |-> Superpose(whole(first_mod), 1, FALSE, 0, FALSE, loc)]

\* set_motion_paths_netcdf(context) with a .mod file, up to its frame loop
\* (lines 1470-1526)
NcBegin ==
    LET fs == FrameStart(start_time, load_frequency)
        fe == FrameEnd(end_time, load_frequency)
        skip == start_time * num_modal_modes
    IN  /\ build.pc = "idle"
        /\ use_netcdf
        /\ lastOp' = "set_motion_paths_netcdf"
        /\ SessionFrame
        /\ UNCHANGED <<start_time, end_time, location>>
        /\ frame_start' = fs
        /\ frame_end' = fe
        /\ frame_current' = fs
        /\ simtime' = SimTimes(LoopBound(fs, load_frequency),
                               LoopBound(fe, load_frequency), load_frequency)
        /\ progress' = [open |-> TRUE, value |-> fs]
        \* line 1487: Dataset(ncfile, "r")
        /\ nc' = [nc EXCEPT !.open = TRUE]
        /\ IF skip > Len(mod)
           THEN /\ ret_val' = "EXC_StopIteration"
                /\ UNCHANGED build
           ELSE /\ ret_val' = ""
                /\ build' = [pc |-> "nc", reader_mod |-> skip, first_mod |-> <<>>,
                             second_mod |-> <<>>, aliased |-> FALSE, frame |-> fs,
                             used |-> <<>>, done |-> 0]

\* the dispatch on the parametrization tag (lines 1538, 1549, 1562, 1570)
HasBranch(par) == par = "PHI" \/ Slice(par, 0, 5) = "EULER" \/ par = "MATRIX"

\* Euler(angles, order): the orders of mathutils are the six without a repeated
\* axis; the order of line 1560 is built from the digits of the tag
EulerOrderValid(par) ==
    par \in {"EULER123", "EULER132", "EULER213", "EULER231", "EULER312", "EULER321"}

\* one frame of set_motion_paths_netcdf (lines 1527-1580)
NcFrame ==
    LET frame == build.frame
        tdx == frame * load_frequency
        out_of_range == Ceil(tdx) >= nc.time
        stops(i) == \/ ~HasBranch(nd[i].parametrization)
                    \/ out_of_range
                    \/ /\ Slice(nd[i].parametrization, 0, 5) = "EULER"
                       /\ ~EulerOrderValid(nd[i].parametrization)
        stoppers == {i \in AnimNodes : stops(i)}
        stop == IF stoppers = {} THEN Len(nd) + 1
                ELSE CHOOSE i \in stoppers : \A j \in stoppers : i <= j
        \* the locations once the nodes before position k have been posed
        helped(k) == [name \in DOMAIN location |->
            IF \E i \in AnimNodes : i < k /\ nd[i].blender_object = name
            THEN netcdf_helper(nc.X[nd[CHOOSE i \in AnimNodes :
                                        nd[i].blender_object = name].int_label],
                               frame, load_frequency)
            ELSE location[name]]
    IN  /\ build.pc = "nc"
        /\ frame < frame_end
        /\ lastOp' = "set_motion_paths_netcdf"
        /\ SessionFrame
        /\ UNCHANGED <<start_time, end_time, simtime, frame_start, frame_end>>
        /\ frame_current' = frame
        /\ IF stoppers # {} /\ ~HasBranch(nd[stop].parametrization)
           THEN \* lines 1570-1573
                /\ ret_val' = "CANCELLED"
                /\ build' = Idle
                /\ location' = helped(stop)
                /\ nc' = [nc EXCEPT !.open = FALSE]
                /\ UNCHANGED progress
           ELSE IF stoppers # {} /\ out_of_range
           THEN \* the index is out of the range of the variable
                /\ ret_val' = "EXC_IndexError"
                /\ build' = Idle
                /\ location' = helped(stop)
                /\ UNCHANGED <<progress, nc>>
           ELSE IF stoppers # {}
           THEN \* lines 1550-1560: the location is set, Euler() raises ValueError
                /\ ret_val' = "EXC_ValueError"
                /\ build' = Idle
                /\ location' = helped(stop + 1)
                /\ UNCHANGED <<progress, nc>>
           ELSE \E m \in {set_motion_modal_nodes(build, frame, helped(Len(nd) + 1))} :
                IF m.eof
                THEN /\ ret_val' = "EXC_StopIteration"
                     /\ build' = Idle
                     /\ location' = helped(Len(nd) + 1)
                     /\ UNCHANGED <<progress, nc>>
                ELSE /\ ret_val' = ""
                     /\ location' = m.location
                     /\ build' = [build EXCEPT !.reader_mod = m.reader_mod,
                                               !.first_mod = m.first_mod,
                                               !.second_mod = m.second_mod,
                                               !.aliased = m.aliased,
                                               !.used = m.used,
                                               !.frame = frame + 1,
                                               !.done = @ + 1]
                     /\ progress' = [progress EXCEPT !.value = frame]
                     /\ UNCHANGED nc

\* the end of set_motion_paths_netcdf (lines 1632-1633)
NcEnd ==
    /\ build.pc = "nc"
    /\ build.frame >= frame_end
    /\ lastOp' = "set_motion_paths_netcdf"
    /\ SessionFrame
    /\ UNCHANGED <<start_time, end_time, frame_start, frame_end, frame_current,
                   location, simtime>>
    /\ progress' = [progress EXCEPT !.open = FALSE]
    \* the Dataset object is released with the locals of the function
    /\ nc' = [nc EXCEPT !.open = FALSE]
    /\ ret_val' = "FINISHED"
    /\ build' = Idle

\* a modal element on node 1 with the modes of the set modes: one modal node with
\* an object, one without
ModalElem(e, modes) ==
    [type |-> "modal", int_label |-> e, nodes |-> <<1>>, blender_object |-> "none",
     is_imported |-> TRUE, string_label |-> NoneStr,
     modal_node |-> <<[blender_object |-> ObjName("modal", e), relative_pos |-> 1,
                       mode |-> [m \in modes |-> m]],
                      [blender_object |-> "none", relative_pos |-> 2,
                       mode |-> [m \in modes |-> m + 1]]>>]

ModalModels == {<<ModalElem(1, {1, 2})>>, <<ModalElem(1, {1}), ModalElem(2, {1, 2})>>}

\* the records of one timestep of the .mod file, elements and modes in order
RECURSIVE ModRecords(_, _, _)
ModRecords(elems, i, q) ==
    IF i > Len(elems) THEN <<>>
    ELSE LET modes == DOMAIN elems[i].modal_node[1].mode IN
         [m \in 1..Cardinality(modes) |->
             [elem |-> elems[i].int_label, mode |-> m, q |-> q + m]]
         \o ModRecords(elems, i + 1, q)

RECURSIVE ModFile(_, _, _)
ModFile(elems, d, b) ==
    IF b > Len(d) THEN <<>> ELSE ModRecords(elems, 1, d[b]) \o ModFile(elems, d, b + 1)

\* the session after the import of a NetCDF output of AnimatedModel with modal
\* elements, node 1 and the modal nodes bound
InitNc ==
    \E r \in {parse_log_file(EmptySession, AnimatedModel)} :
    \E elems \in ModalModels :
    \E d \in [1..MovSteps -> {0, 1}] :
        /\ SessionIs([r EXCEPT !.nd = Bound(r.nd, {1}), !.ed = elems, !.num_rows = 0,
                               !.num_timesteps = MovSteps, !.end_time = MovSteps - 1])
        /\ lastOp = "update_label"
        /\ log_nodes = {1, 2}
        /\ log_elems = {}
        /\ rerun_base = NoRerun
        /\ rd = <<>>
        /\ reader = NoReader
        /\ eigensolutions = <<>>
        /\ start_time = 0
        /\ load_frequency = Den
        /\ frame_start = 0
        /\ frame_end = 0
        /\ frame_current = 0
        /\ simtime = <<>>
        /\ progress = [open |-> FALSE, value |-> 0]
        /\ location = [name \in {ObjName("node", 1)}
                           \cup {ObjName("modal", elems[i].int_label) : i \in 1..Len(elems)}
                         |-> 0]
        /\ mov = <<>>
        /\ mod = ModFile(elems, d, 1)
        /\ nc = [time |-> MovSteps, open |-> FALSE,
                 X |-> [l \in {1, 2} |-> [b \in 1..MovSteps |-> d[b] + l]]]
        /\ use_netcdf = TRUE
        /\ num_modal_modes = Len(ModRecords(elems, 1, 0))
        /\ build = Idle

\* a session that sets the time range and the load frequency and then builds the
\* animation from the NetCDF output, once or again
NextNc ==
    \/ NcBegin
    \/ NcFrame
    \/ NcEnd
    \/ /\ lastOp # "set_motion_paths_netcdf"
       /\ \/ \E v \in 0..MovSteps : update_start_time(v)
          \/ \E v \in 0..(MovSteps + 1) : update_end_time(v)
          \/ \E freq \in Frequencies : set_load_frequency(freq)

SpecNc == InitNc /\ [][NextNc]_vars

(* ---------------------- properties of the NetCDF reader ---------------- *)
\* the raw position of the frame that the build has just posed, in units of 1/Den
PosedAt == (build.frame - 1) * load_frequency
FramePosed ==
    lastOp = "set_motion_paths_netcdf" /\ build.pc = "nc" /\ build.done >= 1

\* C8: netcdf_helper at frame f with load_frequency q reads the samples at indices
\* floor(t) and ceil(t), t = f*q, and returns frac*first + (1 - frac)*second with
\* frac = ceil(t) - t; a weight of 1 gives the earlier sample, a weight of 0 the
\* later one, and for an integral t the result is the single sample at t.
C8_NetcdfLerp ==
    FramePosed =>
        \A i \in AnimNodes :
            LET var    == nc.X[nd[i].int_label]
                t      == PosedAt
                frac   == Ceil(t) * Den - t
                first  == var[Floor(t) + 1]
                second == var[Ceil(t) + 1]
            IN  /\ location[nd[i].blender_object] = frac * first + (Den - frac) * second
                /\ Lerp(first, second, Den - Den) = Den * first
                /\ Lerp(first, second, Den - 0) = Den * second
                /\ (t % Den = 0 => location[nd[i].blender_object] = Den * var[t \div Den + 1])

\* a frame at a fractional raw position was posed between two different samples
C8_Witness ==
    /\ FramePosed
    /\ PosedAt % Den # 0
    /\ \E i \in AnimNodes :
          LET var == nc.X[nd[i].int_label] IN
          /\ var[Floor(PosedAt) + 1] # var[Ceil(PosedAt) + 1]
          /\ location[nd[i].blender_object] # Den * var[Floor(PosedAt) + 1]
          /\ location[nd[i].blender_object] # Den * var[Ceil(PosedAt) + 1]

\* the sum of q * mode_shape over the records of element e that a frame used
RECURSIVE ModalSum(_, _, _, _)
ModalSum(recs, i, e, node) ==
    IF i > Len(recs) THEN 0
    ELSE (IF recs[i].elem = e /\ recs[i].mode \in DOMAIN node.mode
          THEN recs[i].q * node.mode[recs[i].mode] ELSE 0)
         + ModalSum(recs, i + 1, e, node)

\* C9: for every frame of a build and every modal element, once the mode records
\* of the frame are processed, the location of each bound modal node is the
\* parent node's world transform applied to relative_pos + the sum over all the
\* modes of the element of coordinate * mode_shape.
C9_ModalSuperposition ==
    FramePosed =>
        \A k \in 1..Len(ed) : \A j \in 1..Len(ed[k].modal_node) :
            LET node == ed[k].modal_node[j] IN
            node.blender_object # "none" =>
                location[node.blender_object] =
                    location[BoundObject(ed[k].nodes[1])] + Den * node.relative_pos
                        + ModalSum(build.used, 1, ed[k].int_label, node)

\* parametrization tags of a registry whose validation has a gap
Tags == {"PHI", "MATRIX", "EULER123", "EULER313", "QUATERNION"}

\* the session of InitNc, node 1 carrying any of the tags
InitNcTagged ==
    \E r \in {parse_log_file(EmptySession, AnimatedModel)} :
    \E elems \in ModalModels :
    \E tag \in Tags :
    \E d \in {[b \in 1..MovSteps |-> IF b <= k THEN 0 ELSE 1] : k \in 0..MovSteps} :
        /\ SessionIs([r EXCEPT !.nd = [Bound(r.nd, {1}) EXCEPT ![1].parametrization = tag],
                               !.ed = elems, !.num_rows = 0,
                               !.num_timesteps = MovSteps, !.end_time = MovSteps - 1])
        /\ lastOp = "update_label"
        /\ log_nodes = {1, 2}
        /\ log_elems = {}
        /\ rerun_base = NoRerun
        /\ rd = <<>>
        /\ reader = NoReader
        /\ eigensolutions = <<>>
        /\ start_time = 0
        /\ load_frequency = Den
        /\ frame_start = 0
        /\ frame_end = 0
        /\ frame_current = 0
        /\ simtime = <<>>
        /\ progress = [open |-> FALSE, value |-> 0]
        /\ location = [name \in {ObjName("node", 1)}
                           \cup {ObjName("modal", elems[i].int_label) : i \in 1..Len(elems)}
                         |-> 0]
        /\ mov = <<>>
        /\ mod = ModFile(elems, d, 1)
        /\ nc = [time |-> MovSteps, open |-> FALSE,
                 X |-> [l \in {1, 2} |-> [b \in 1..MovSteps |-> d[b] + l]]]
        /\ use_netcdf = TRUE
        /\ num_modal_modes = Len(ModRecords(elems, 1, 0))
        /\ build = Idle

SpecNcTagged == InitNcTagged /\ [][NextNc]_vars

\* a node that a frame poses carries a tag outside the supported set
UnsupportedTag == \E i \in AnimNodes : nd[i].parametrization \notin SupportedPar

\* C16: when a node whose parametrization tag is anything other than PHI, MATRIX
\* or one of the three supported Euler sequences reaches the interpolation step,
\* the build fails with a raised error: it returns no normal status value, does
\* not go on with the remaining nodes or frames and applies no orientation for
\* that node.
C16_UnsupportedTagRaises ==
    (lastOp = "set_motion_paths_netcdf" /\ UnsupportedTag)
        => /\ ret_val # "CANCELLED"
           /\ (ret_val = "FINISHED" => frame_start >= frame_end)
           /\ (build.pc = "nc" => build.done = 0)

(* ================== import and animation in one session ================ *)
\* the .mov file of the session: MovRows rows, one per timestep for each of the
\* nodes 1 and 2
SessionMov == [i \in 1..MovRows |-> [label |-> 2 - (i % 2), x |-> i]]

\* a new session in a directory with the .mov file, the objects node_1 and
\* node_2 in the scene
InitSession ==
    /\ SessionIs(EmptySession)
    /\ lastOp = ""
    /\ log_nodes = {}
    /\ log_elems = {}
    /\ rerun_base = NoRerun
    /\ rd = <<>>
    /\ reader = NoReader
    /\ eigensolutions = <<>>
    /\ start_time = 0
    /\ load_frequency = Den
    /\ frame_start = 0
    /\ frame_end = 0
    /\ frame_current = 0
    /\ simtime = <<>>
    /\ progress = [open |-> FALSE, value |-> 0]
    /\ location = [name \in {ObjName("node", l) : l \in NodeLabels} |-> 0]
    /\ mov = SessionMov
    /\ NoNetcdf
    /\ build = Idle

\* imports, bindings and animation builds in any order, one operator at a time
NextSession ==
    \/ /\ build.pc = "idle"
       /\ \E f \in WorkDirs : ParseLogFile(f)
    \/ /\ build.pc = "idle"
       /\ \E l \in NodeLabels : update_label(l)
    \/ MovBegin
    \/ MovFrame
    \/ MovEnd

SpecSession == InitSession /\ [][NextSession]_vars

\* C17: no animation build reads a sample or applies a pose unless a
\* parse_log_file pass has run to completion before it and ended without an error
\* status; a pass that was aborted (unsupported rotation parametrization, log not
\* found, log ending before the end-of-declarations marker) does not leave the
\* session marked ready for animation.
C17_BuildOnlyAfterCompletePass ==
    /\ (lastOp = "set_motion_paths_mov" /\ build.pc = "loop") => pass_end = "marker"
    /\ (lastOp = "parse_log_file" /\ pass_end # "marker") => ~is_ready

\* The files of the text backend are opened in `with` blocks.  The Dataset of
\* line 1487 is never closed by the code: the object is released with the locals
\* when the function returns, and stays alive, open, in the frame that the
\* traceback of an escaping exception holds.

\* C19: every file handle or dataset that an operation opens is closed by the
\* time the operation returns, on every exit path, error returns and exceptions
\* included; no handle stays open across operations.
C19_HandlesClosed == build.pc = "idle" => ~nc.open

(* ----------------- the row count and the derived timesteps ------------- *)

\* numbers of rows of the .mov file handed to setup_import
RowCounts == 0..MovRows

\* setup_import(filepath, context) on a text output of `rows` rows (lines 178-183):
\* file_len counts the rows and never returns a negative number, so the
\* FILE_ERROR return is not taken
setup_import(rows) ==
    /\ use_netcdf' = FALSE
    /\ num_rows' = rows
    /\ ret_val' = "FINISHED"
    /\ lastOp' = "setup_import"
    /\ UNCHANGED <<nd, ed, is_ready, min_node_import, max_node_import, min_elem_import,
                   max_elem_import, num_nodes, num_timesteps, end_time, obj_names,
                   pass_ret, pass_end, log_nodes, log_elems, rerun_base, reader, eigensolutions, rd,
                   start_time, load_frequency, frame_start, frame_end, frame_current,
                   simtime, progress, location, mov, mod, nc, num_modal_modes, build>>

\* a session that selects text outputs of different lengths and imports them
NextCounts ==
    \/ \E rows \in RowCounts : setup_import(rows)
    \/ \E f \in WorkDirs : ParseLogFile(f)

SpecCounts == Init /\ [][NextCounts]_vars

\* C20: in the text backend, after setup_import and a parse_log_file that found
\* nodes, num_rows = num_nodes * num_timesteps whenever num_rows is a multiple of
\* the number of nodes, and a num_rows that is not a multiple of it is reported
\* by the pass (a status other than FINISHED) instead of being rounded silently.
C20_RowsTimesteps ==
    (lastOp = "parse_log_file" /\ ~use_netcdf /\ Len(nd) > 0)
        => IF num_rows % Len(nd) = 0
           THEN num_rows = num_nodes * num_timesteps
           ELSE ret_val # "FINISHED"

(* ------------------------ the imported label ranges -------------------- *)

\* l is the smallest (largest) of the int_label values of the collection
IsSmallest(l, coll) == l \in Range(IntLabels(coll)) /\ \A m \in Range(IntLabels(coll)) : l <= m
IsLargest(l, coll) == l \in Range(IntLabels(coll)) /\ \A m \in Range(IntLabels(coll)) : l >= m

\* the registries whose scan is compared with the extremes: records of up to
\* MaxScan different labels, in every order
MaxScan == 3
ScanOrders ==
    {q \in UNION {[1..n -> 1..MaxScan] : n \in 1..MaxScan} :
        \A i, j \in 1..Len(q) : i # j => q[i] # q[j]}
Labelled(q) == [i \in 1..Len(q) |-> [int_label |-> q[i]]]

\* the scan of lines 416-423 and 442-448 on a collection, as parse_log_file runs it
Scanned(coll) == MinMaxScan(coll, 2, coll[1].int_label, coll[1].int_label)

\* C21: after every parse_log_file pass that leaves at least one node in the
\* registry, min_node_import and max_node_import are the smallest and the largest
\* int_label of the nodes, whatever the order of the records; likewise
\* min_elem_import and max_elem_import over the elements when there is one.
C21_LabelRanges ==
    lastOp = "parse_log_file" =>
        /\ Len(nd) > 0 => /\ IsSmallest(min_node_import, nd)
                          /\ IsLargest(max_node_import, nd)
        /\ Len(ed) > 0 => /\ IsSmallest(min_elem_import, ed)
                          /\ IsLargest(max_elem_import, ed)
        /\ \A q \in ScanOrders :
              /\ IsSmallest(Scanned(Labelled(q)).min, Labelled(q))
              /\ IsLargest(Scanned(Labelled(q)).max, Labelled(q))

\* a pass has left two nodes and two elements, each in descending label order
C21_Witness ==
    /\ lastOp = "parse_log_file"
    /\ Len(nd) = 2 /\ nd[1].int_label > nd[2].int_label
    /\ Len(ed) = 2 /\ ed[1].int_label > ed[2].int_label
    /\ min_node_import = 1 /\ max_node_import = 2

(* ----------------- the orientation of MATRIX nodes (.nc) --------------- *)
\* Rotations about the z axis by quarter turns.  Angles are integers in units
\* of 45/Den degrees; a unit quaternion (cos a, 0, 0, sin a) of the z circle is
\* kept as its angle a, so that q and -q are half a circle apart.
HalfCircle == 4 * Den

\* the rotation matrix about z with cosine c and sine s
Rz(c, s) == <<<<c, 0 - s, 0>>, <<s, c, 0>>, <<0, 0, 1>>>>
Rotations == {Rz(1, 0), Rz(0, 1), Rz(0 - 1, 0), Rz(0, 0 - 1)}

\* Matrix.transposed()
transposed(m) == [i \in 1..3 |-> [j \in 1..3 |-> m[j][i]]]

\* Matrix.to_quaternion() of a rotation about z, the scalar part not negative:
\* the angle of the quaternion is half the angle of the rotation
to_quaternion(m) ==
    IF m[1][1] = 1 THEN 0
    ELSE IF m[2][1] = 1 THEN Den
    ELSE IF m[1][1] = 0 - 1 THEN 2 * Den
    ELSE 0 - Den

\* an angle brought into (-HalfCircle, HalfCircle]
Wrapped(a) ==
    LET r == a % (2 * HalfCircle)
    IN  IF r > HalfCircle THEN r - 2 * HalfCircle ELSE r

\* Quaternion.slerp(): q2 is negated when the dot product of the two is negative,
\* then the angle runs from q1 to q2 with the factor fac, in units of 1/Den
slerp(q1, q2, fac) ==
    LET delta == Wrapped(q2 - q1)
        short == IF 2 * delta > HalfCircle THEN delta - HalfCircle
                 ELSE IF 2 * delta < 0 - HalfCircle THEN delta + HalfCircle
                 ELSE delta
    IN  Wrapped(q1 + (fac * short) \div Den)

\* the interpolation factor given to the first endpoint
netcdf_helper_quat_swapped(var, frame, freq) ==
    LET tdx  == frame * freq
        frac == Ceil(tdx) * Den - tdx
    IN  slerp(to_quaternion(transposed(var[Floor(tdx) + 1])),
              to_quaternion(transposed(var[Ceil(tdx) + 1])), frac)

\* netcdf_helper_quat(nc, scene, key): var the samples of nc.variables[key],
\* frame = scene.frame_current
netcdf_helper_quat(var, frame, freq) ==
    LET tdx      == frame * freq
        frac     == Ceil(tdx) * Den - tdx
        q_first  == to_quaternion(transposed(var[Floor(tdx) + 1]))
        q_second == to_quaternion(transposed(var[Ceil(tdx) + 1]))
    IN  slerp(q_first, q_second, Den - frac)

\* the call of line 1567 on the variable node.struct.1.R at the current frame
NetcdfHelperQuat ==
    /\ Ceil(frame_current * load_frequency) < nc.time
    /\ ret_val' = netcdf_helper_quat(nc.R, frame_current, load_frequency)
    /\ lastOp' = "netcdf_helper_quat"
    /\ UNCHANGED <<nd, ed, is_ready, min_node_import, max_node_import, min_elem_import,
                   max_elem_import, num_rows, num_nodes, num_timesteps, end_time,
                   obj_names, pass_ret, pass_end, log_nodes, log_elems, rerun_base,
                   animvars>>

\* a NetCDF output with the orientation matrices of node 1, a frame and a load
\* frequency
InitQuat ==
    \E r \in {parse_log_file(EmptySession, AnimatedModel)} :
    \E R \in [1..MovSteps -> Rotations] :
    \E frame \in 0..(MovSteps - 1) :
    \E freq \in Frequencies :
        /\ SessionIs([r EXCEPT !.nd = Bound(r.nd, {1}), !.num_rows = 0,
                               !.num_timesteps = MovSteps, !.end_time = MovSteps - 1])
        /\ lastOp = "update_label"
        /\ log_nodes = {1, 2}
        /\ log_elems = {}
        /\ rerun_base = NoRerun
        /\ rd = <<>>
        /\ reader = NoReader
        /\ eigensolutions = <<>>
        /\ start_time = 0
        /\ load_frequency = freq
        /\ frame_start = 0
        /\ frame_end = 0
        /\ frame_current = frame
        /\ simtime = <<>>
        /\ progress = [open |-> FALSE, value |-> 0]
        /\ location = [name \in {ObjName("node", 1)} |-> 0]
        /\ mov = <<>>
        /\ mod = <<>>
        /\ nc = [time |-> MovSteps, open |-> FALSE, R |-> R]
        /\ use_netcdf = TRUE
        /\ num_modal_modes = 0
        /\ build = Idle

SpecQuat == InitQuat /\ [][NetcdfHelperQuat]_vars

\* the angle between the rotations of two unit quaternions, q and -q being the
\* same rotation: between 0 and a quarter of a circle
QuatAngle(p, q) ==
    LET d == (p - q) % HalfCircle
    IN  IF 2 * d > HalfCircle THEN HalfCircle - d ELSE d

\* the quaternions of the two matrices that bracket the current frame, and the
\* fraction of the frame, in units of 1/Den
Bracket ==
    LET tdx == frame_current * load_frequency
    IN  [first  |-> to_quaternion(transposed(nc.R[Floor(tdx) + 1])),
         second |-> to_quaternion(transposed(nc.R[Ceil(tdx) + 1])),
         frac   |-> Ceil(tdx) * Den - tdx]

NodeLine     == <<"structural", "node:", "1", "PHI">>
Beam2Line    == <<"beam2:", "1", "1", "2">>
MarkerLine   == <<"Symbol", "table:">>
BareMarker   == <<"Symbol", "table">>
EmptyLine    == <<>>
FourWordLine == <<"induced", "velocity", "rotor", "element:", "1">>
LoneTagLine  == <<"gravity:">>
CommentLine  == <<"output", "frequency", "1">>
RawRows ==
    {NodeLine, Beam2Line, MarkerLine, BareMarker, EmptyLine, FourWordLine,
     LoneTagLine, CommentLine}

\* the logs read row by row: at most MaxRaw rows
MaxRaw == 3
RawLogs == UNION {[1..n -> RawRows] : n \in 0..MaxRaw}

\* min(3, len(rw) - 1)
LastScanned(rw) == IF Len(rw) - 1 < 3 THEN Len(rw) - 1 ELSE 3

\* lines 360-366: entry and ii when the inner while loop ends; rw[ii][-1] raises
\* IndexError on an empty field
RECURSIVE ScanTag(_, _, _)
ScanTag(rw, ii, entry) ==
    IF Len(rw[ii + 1]) = 0 THEN [exc |-> "IndexError"]
    ELSE IF CharAt(rw[ii + 1], Len(rw[ii + 1]) - 1) # ":" /\ ii < LastScanned(rw)
    THEN ScanTag(rw, ii + 1, entry \o " " \o rw[ii + 2])
    ELSE [exc |-> "", ii |-> ii, entry |-> entry]

\* rows whose entry ends the loop at its first record
Dispatch_first(rw) ==
    IF Len(rw) = 0 THEN [exc |-> "IndexError"]
    ELSE [exc |-> "", entry |-> "Symbol table:", parser |-> "none", tag |-> ""]

\* lines 360-375 on one row: the row is skipped, handed to parse_node or handed
\* to parse_elements with the tag entry[:-1]; rw[0] raises IndexError on a row
\* without fields
Dispatch(rw) ==
    IF Len(rw) = 0 THEN [exc |-> "IndexError"]
    ELSE LET t == ScanTag(rw, 0, rw[1]) IN
         IF t.exc # "" THEN t
         ELSE IF t.ii = LastScanned(rw)
         THEN [exc |-> "", entry |-> t.entry, parser |-> "none", tag |-> ""]
         ELSE IF t.entry = "structural node:"
         THEN [exc |-> "", entry |-> t.entry, parser |-> "parse_node", tag |-> t.entry]
         ELSE [exc |-> "", entry |-> t.entry, parser |-> "parse_elements",
               tag |-> Slice(t.entry, 0, -1)]

\* lines 357-375: the loop `while entry[:-1] != "Symbol table"` from row i on;
\* calls are the rows handed to the sub-parsers, in order; end is "marker" (the
\* loop condition failed, the verdict of lines 377-386 follows), "eof"
\* (StopIteration, caught at line 393) or "IndexError" (caught nowhere)
RECURSIVE ReadRows(_, _, _)
ReadRows(rows, i, calls) ==
    IF i > Len(rows) THEN [rows |-> rows, calls |-> calls, end |-> "eof", at |-> i]
    ELSE LET d == Dispatch(rows[i]) IN
         IF d.exc # ""
         THEN [rows |-> rows, calls |-> calls, end |-> d.exc, at |-> i]
         ELSE LET called == IF d.parser = "none" THEN calls
                            ELSE Append(calls, [row |-> i, parser |-> d.parser,
                                                tag |-> d.tag])
              IN  IF Slice(d.entry, 0, -1) = "Symbol table"
                  THEN [rows |-> rows, calls |-> called, end |-> "marker", at |-> i]
                  ELSE ReadRows(rows, i + 1, called)

\* the declaration loop of parse_log_file on the log that the reader holds
DeclarationLoop ==
    /\ reader.end = ""
    /\ reader' = ReadRows(reader.rows, 1, <<>>)
    /\ pass_end' = reader'.end
    /\ lastOp' = "declaration loop"
    /\ UNCHANGED <<nd, ed, is_ready, min_node_import, max_node_import, min_elem_import,
                   max_elem_import, num_rows, num_nodes, num_timesteps, end_time,
                   ret_val, obj_names, pass_ret, log_nodes, log_elems, rerun_base,
                   labelvars, buildvars, eigensolutions>>

InitRows ==
    /\ SessionIs(EmptySession)
    /\ lastOp = ""
    /\ log_nodes = {}
    /\ log_elems = {}
    /\ rerun_base = NoRerun
    /\ rd = <<>>
    /\ NoBuild
    /\ eigensolutions = <<>>
    /\ \E log \in RawLogs : reader = [rows |-> log, calls |-> <<>>, end |-> ""]

SpecRows == InitRows /\ [][DeclarationLoop]_vars

\* the position of the first row of the log equal to rw, 0 when there is none
FirstRow(rw) ==
    IF \E i \in 1..Len(reader.rows) : reader.rows[i] = rw
    THEN CHOOSE i \in 1..Len(reader.rows) :
            /\ reader.rows[i] = rw
            /\ \A j \in 1..(i - 1) : reader.rows[j] # rw
    ELSE 0

\* the loop has run on the log
LoopDone == lastOp = "declaration loop"

ColonFields(rw) ==
    {i \in 1..Len(rw) : i <= 4 /\ Len(rw[i]) > 0 /\ CharAt(rw[i], Len(rw[i]) - 1) = ":"}

\* the fields of a row up to position n joined by single spaces
RECURSIVE Joined(_, _)
Joined(rw, n) == IF n = 1 THEN rw[1] ELSE Joined(rw, n - 1) \o " " \o rw[n]

\* the tag of a declaration: the fields up to its first field ending in ':'
DeclaredTag(rw) ==
    Joined(rw, CHOOSE i \in ColonFields(rw) : \A j \in ColonFields(rw) : i <= j)

\* the calls of the sub-parsers on row i
CallsOn(i) == {k \in 1..Len(reader.calls) : reader.calls[k].row = i}

\* C24: a record is an entity declaration exactly when one of its first four
\* whitespace-separated fields ends in ':' (whichever of the four, also when it
\* is the last field of the record); its tag is the fields up to that one joined
\* by single spaces; "structural node:" goes to the node sub-parser, every other
\* declaration to the element sub-parser with the tag stripped of its colon; a
\* record without such a field (an empty line included) is skipped without
\* ending the pass.
C24_DeclarationRows ==
    LoopDone =>
        /\ reader.end \in {"marker", "eof"}
        /\ \A i \in 1..Len(reader.rows) :
               (i <= reader.at /\ reader.rows[i] # MarkerLine) =>
                   IF ColonFields(reader.rows[i]) = {}
                   THEN CallsOn(i) = {}
                   ELSE \E k \in CallsOn(i) :
                           LET tag == DeclaredTag(reader.rows[i]) IN
                           IF tag = "structural node:"
                           THEN reader.calls[k].parser = "parse_node"
                           ELSE /\ reader.calls[k].parser = "parse_elements"
                                /\ reader.calls[k].tag = Slice(tag, 0, -1)

(* ------------------ frames and raw timesteps (.mov file) --------------- *)
\* the load frequency is an integer q >= 1, the time range lies inside the
\* recorded one and every node of the registry has an object to pose
IntegerBuild ==
    /\ lastOp = "set_motion_paths_mov"
    /\ load_frequency % Den = 0
    /\ start_time <= end_time
    /\ end_time <= num_timesteps - 1
    /\ Unposed = {}

\* C25: in set_motion_paths_mov with an integer load_frequency q >= 1 and
\* start_time and end_time inside the recorded range, the k-th frame of the build
\* (scene frame frame_start + k) applies to every node the rows of raw timestep
\* (frame_start + k) * q, the cursor consumes q blocks of num_nodes rows per
\* frame after the first, and no row of a timestep >= num_timesteps is read.
C25_FramesFollowTimesteps ==
    IntegerBuild =>
        /\ ret_val # "EXC_StopIteration"
        /\ build.pc = "loop" =>
            LET q == load_frequency \div Den
                k == build.idx
            IN  /\ frame_current = frame_start + k
                /\ \A l \in build.anim_objs :
                       location[BoundObject(l)] = Den * RowAt((frame_start + k) * q, l).x
                /\ build.reader_mov = (start_time + 1 + k * q) * num_nodes
                /\ build.reader_mov <= num_timesteps * num_nodes

(* ---------------------- beam records (beamlib.py) ---------------------- *)
\* the beam records handed to the two parsers
Beam2Rows == {Beam2Row(1, 1, o1, 2, o2) : o1, o2 \in {0, 1}}
Beam3Rows == {Beam3Row(1, 1, o1, 2, o2, 3, o3) : o1, o2, o3 \in {0, 1}}

\* one call of parse_beam2 or parse_beam3 on the element registry
ParseBeam(rw) ==
    \E r \in {IF rw.k = "beam2" THEN parse_beam2(ed, rw) ELSE parse_beam3(ed, rw)} :
        /\ ed' = r.ed
        /\ ret_val' = r.ret
        /\ lastOp' = "parse_" \o rw.k
        /\ UNCHANGED <<nd, is_ready, min_node_import, max_node_import, min_elem_import,
                       max_elem_import, num_rows, num_nodes, num_timesteps, end_time,
                       obj_names, pass_ret, pass_end, log_nodes, log_elems, rerun_base,
                       animvars>>

NextBeams == \E rw \in Beam2Rows \cup Beam3Rows : ParseBeam(rw)

SpecBeams == Init /\ [][NextBeams]_vars

\* C26: after parse_beam2 or parse_beam3 handles a record, on the path that
\* creates the element and on the path that updates it alike, the element's i-th
\* node and i-th offset are the i-th node label and offset of the record; hence
\* the same beam3 record parsed twice leaves the offsets of the first parse.
C26_BeamRecordStored ==
    [][\A rw \in Beam2Rows \cup Beam3Rows :
          ParseBeam(rw) =>
              LET e == ed'[FindElem(ed', rw.k, rw.lab)]
              IN  e.nodes = rw.nodes /\ e.offsets = rw.offsets]_vars

\* C27: after update_end_time and update_start_time have run, start_time and
\* end_time lie within the recorded time range (in text mode at most
\* (num_timesteps - 1) * time_step), so that an animation build started
\* afterwards never requests a raw timestep index >= num_timesteps.
C27_TimeRangeClamped ==
    /\ lastOp = "update_start_time" => start_time <= num_timesteps - 1
    /\ lastOp = "update_end_time" => end_time <= num_timesteps - 1
    /\ (lastOp = "set_motion_paths_mov" /\ start_time <= end_time)
           => ret_val # "EXC_StopIteration"

(* ------------------------ nodes without output ------------------------- *)
\* working directories whose log is complete and whose .mov file records any
\* subset of the node labels
OutputDirs ==
    [log : {log \in Logs : /\ log.exists
                           /\ Len(log.rows) > 0
                           /\ log.rows[Len(log.rows)] = MarkerRow
                           /\ \A i \in 1..Len(log.rows) :
                                  log.rows[i].k \in {"structural node", "Symbol table"}},
     out : BOOLEAN,
     mov : SUBSET NodeLabels]

\* imports of outputs that record different nodes
NextOutput == \E f \in OutputDirs : ParseLogFile(f)

SpecOutput == Init /\ [][NextOutput]_vars

\* C28: after any sequence of parse_log_file passes, a node's output flag is
\* true exactly when the output read by the latest pass holds a record for the
\* node; a node whose output was recorded in an earlier import but is disabled
\* in the current one has the flag false.
C28_OutputFlagCurrent ==
    [][\A f \in OutputDirs :
          ParseLogFile(f) =>
              \A i \in 1..Len(nd') : nd'[i].output <=> nd'[i].int_label \in f.mov]_vars

(* -------------------- the beam import operators ------------------------ *)
\* the positions of the nodes of an element that the node registry lacks
MissingNodes(nodes, e) == {k \in 1..Len(e.nodes) : FindNode(nodes, e.nodes[k]) = 0}

\* spawn_beam2_element(elem, context) and spawn_beam3_element(elem, context) on
\* the element at position i: the status and the element registry; the lookup of
\* the object of a node that has none raises KeyError
spawn_beam_element(elems, nodes, i) ==
    LET e == elems[i]
        missing == MissingNodes(nodes, e)
        first == CHOOSE k \in missing : \A m \in missing : k <= m
    IN  IF e.blender_object # "none" THEN [ed |-> elems, ret |-> "OBJECT_EXISTS"]
        ELSE IF missing # {}
        THEN [ed |-> elems, ret |-> "NODE" \o ToString(first) \o "_NOTFOUND"]
        ELSE IF \E k \in 1..Len(e.nodes) :
                   nodes[FindNode(nodes, e.nodes[k])].blender_object = "none"
        THEN [ed |-> elems, ret |-> "EXC_KeyError"]
        ELSE [ed |-> [elems EXCEPT ![i].blender_object = ObjName(e.type, e.int_label),
                                   ![i].is_imported = TRUE],
              ret |-> "FINISHED"]

\* BLENDYN_OT_import_beam2.execute and BLENDYN_OT_import_beam3.execute with
\* int_label = l.  The handler of KeyError names elem, which is unbound when the
\* lookup of the element raised; line 657 names message, which is not defined.
import_beam(elems, nodes, kind, l) ==
    LET i == FindElem(elems, kind, l) IN
    IF i = 0 THEN [ed |-> elems, ret |-> "EXC_UnboundLocalError"]
    ELSE LET r == spawn_beam_element(elems, nodes, i) IN
         IF r.ret = "FINISHED" THEN r
         ELSE IF r.ret = "NODE1_NOTFOUND" /\ kind = "beam2"
         THEN [ed |-> elems, ret |-> "EXC_NameError"]
         ELSE [ed |-> elems, ret |-> "CANCELLED"]

ImportBeam(kind, l) ==
    \E r \in {import_beam(ed, nd, kind, l)} :
        /\ ed' = r.ed
        /\ ret_val' = r.ret
        /\ lastOp' = "import_" \o kind
        /\ UNCHANGED <<nd, is_ready, min_node_import, max_node_import, min_elem_import,
                       max_elem_import, num_rows, num_nodes, num_timesteps, end_time,
                       obj_names, pass_ret, pass_end, log_nodes, log_elems, rerun_base,
                       animvars>>

\* the declarations of a model with the nodes of labels in N and the beams of
\* kinds in E, each beam of label 1 between nodes 1, 2 (and 3)
ModelRows(N, E) ==
    LET isin(r) == IF r.k = "structural node" THEN r.lab \in N ELSE r.k \in E
    IN  SelectSeq(<<NodeRow(1, "PHI"), NodeRow(2, "PHI"), NodeRow(3, "PHI"),
                    Beam2Row(1, 1, 0, 2, 0), Beam3Row(1, 1, 0, 2, 0, 3, 0)>>, isin)

\* the session after such a model was declared and the nodes of labels in bound
\* were given objects
InitImport ==
    \E N \in SUBSET {1, 2, 3} :
    \E E \in SUBSET {"beam2", "beam3"} :
    \E bound \in SUBSET N :
    \E p \in {ParseRows(ModelRows(N, E), 1, <<>>, <<>>, TRUE, TRUE)} :
        /\ SessionIs([EmptySession EXCEPT !.nd = Bound(p.nd, bound), !.ed = p.ed])
        /\ lastOp = ""
        /\ log_nodes = N
        /\ log_elems = {}
        /\ rerun_base = NoRerun
        /\ rd = <<>>
        /\ reader = NoReader
        /\ eigensolutions = <<>>
        /\ NoBuild

NextImport == \E kind \in {"beam2", "beam3"} : \E l \in ElemLabels : ImportBeam(kind, l)

SpecImport == InitImport /\ [][NextImport]_vars

\* the operator is called for an element that the registry lacks or one of whose
\* nodes the node registry lacks
LookupMiss(kind, l) ==
    \/ FindElem(ed, kind, l) = 0
    \/ MissingNodes(nd, ed[FindElem(ed, kind, l)]) # {}

\* C29: the import operators for beam elements return CANCELLED, raise nothing
\* and create no object for every lookup miss (element label not in the element
\* registry, first, second or third referenced node not in the node registry),
\* and leave elem.blender_object unchanged.
C29_LookupMissCancelled ==
    [][\A kind \in {"beam2", "beam3"} : \A l \in ElemLabels :
          (ImportBeam(kind, l) /\ LookupMiss(kind, l))
              => (ret_val' = "CANCELLED" /\ ed' = ed)]_vars

(* ------------------- eigenanalysis blocks (NetCDF) --------------------- *)
\* the eigenanalysis blocks of a NetCDF file: the block of index i - 1 owns the
\* dimension eig.<i-1>.iNVec_out and the variables eig.<i-1>.step, .time, .dCoef
MaxBlocks == 2
EigBlocks == [step : 1..3, dCoef : 1..2]
EigFiles == UNION {[1..n -> EigBlocks] : n \in 0..MaxBlocks}

\* calls of setup_import in one session
MaxCalls == 3

\* lines 160-168: one record is added per dimension whose name holds iNVec_out;
\* the variables are those of the loop counter ii, the time of a block is the
\* time of its step
RECURSIVE AddEigsols(_, _, _)
AddEigsols(eigsols, blocks, ii) ==
    IF ii >= Len(blocks) THEN eigsols
    ELSE AddEigsols(Append(eigsols, [index |-> ii,
                                     step |-> blocks[ii + 1].step,
                                     time |-> blocks[ii + 1].step,
                                     dCoef |-> blocks[ii + 1].dCoef,
                                     iNVec |-> 1,
                                     curr_eigmode |-> 1]),
                    blocks, ii + 1)

\* setup_import(filepath, context) on the NetCDF file of the session (lines
\* 153-177)
setup_import_netcdf ==
    /\ Len(eigensolutions) <= (MaxCalls - 1) * Len(nc.eig)
    /\ use_netcdf' = TRUE
    /\ num_rows' = 0
    /\ num_nodes' = nc.nodes
    /\ num_timesteps' = nc.time
    /\ eigensolutions' = AddEigsols(eigensolutions, nc.eig, 0)
    /\ ret_val' = "FINISHED"
    /\ lastOp' = "setup_import"
    /\ UNCHANGED <<nd, ed, is_ready, min_node_import, max_node_import, min_elem_import,
                   max_elem_import, end_time, obj_names, pass_ret, pass_end, log_nodes,
                   log_elems, rerun_base, rd, reader, start_time, load_frequency,
                   frame_start, frame_end, frame_current, simtime, progress, location,
                   mov, mod, nc, num_modal_modes, build>>

\* a session before its first import, with a NetCDF output to select
InitEigen ==
    /\ SessionIs(EmptySession)
    /\ lastOp = ""
    /\ log_nodes = {}
    /\ log_elems = {}
    /\ rerun_base = NoRerun
    /\ rd = <<>>
    /\ reader = NoReader
    /\ eigensolutions = <<>>
    /\ start_time = 0
    /\ load_frequency = Den
    /\ frame_start = 0
    /\ frame_end = 0
    /\ frame_current = 0
    /\ simtime = <<>>
    /\ progress = [open |-> FALSE, value |-> 0]
    /\ location = NoPoses
    /\ mov = <<>>
    /\ mod = <<>>
    /\ \E blocks \in EigFiles :
           nc = [time |-> MovSteps, open |-> FALSE, nodes |-> 2, eig |-> blocks]
    /\ use_netcdf = FALSE
    /\ num_modal_modes = 0
    /\ build = Idle

SpecEigen == InitEigen /\ [][setup_import_netcdf]_vars

\* C30: calling setup_import any number of times on the same NetCDF file leaves
\* the eigensolutions collection with exactly one record per eigenanalysis block
\* of the file, each record holding the step, time and coefficient of the block
\* whose index it carries.
C30_OneRecordPerBlock ==
    lastOp = "setup_import" =>
        /\ Len(eigensolutions) = Len(nc.eig)
        /\ \A i \in 1..Len(eigensolutions) :
               LET b == nc.eig[eigensolutions[i].index + 1] IN
               /\ eigensolutions[i].step = b.step
               /\ eigensolutions[i].time = b.step
               /\ eigensolutions[i].dCoef = b.dCoef

====
